---- MODULE Spec2Model ----
(***************************************************************************)
(* Model of the TTL-aware key-value store (src/store/store.ts), its        *)
(* expiration engine (src/store/ttl.ts) and the snapshot persistence       *)
(* manager (src/persistence/snapshot-manager.ts), and of the RESP request  *)
(* parser (RESPParser) with the socket handler that feeds it               *)
(* (src/socket/handlers.ts).                                               *)
(*                                                                         *)
(* Time is the value of Date.now() in milliseconds.  Every handler runs to *)
(* completion: one action is one public call or one timer callback,        *)
(* including every nested call it makes.  The handlers are written as      *)
(* operators over a record w holding the fields of the three objects, so   *)
(* that a call chain (set -> expire -> onDelete -> delete -> ...) is a     *)
(* composition of operators.                                               *)
(***************************************************************************)
EXTENDS Integers, Sequences, FiniteSets, TLC

VARIABLES
    now,             \* Date.now(), milliseconds
    permanentStore,  \* KeyValueStore.permanentStore : key -> value
    ttlStore,        \* KeyValueStore.ttlStore       : key -> value
    ttlTable,        \* TTLManager.ttlStore          : key -> expiresAt
    timeouts,        \* TTLManager.timeouts          : key -> timer handle
    cleanupIntervalId, \* TTLManager.cleanupIntervalId is defined
    lastCleanup,     \* TTLManager.lastCleanup
    dirty,           \* KeyValueStore.dirty
    expiredCount,    \* KeyValueStore.expiredCount
    rules,           \* SnapshotManager.rules
    timer,           \* SnapshotManager.timer
    checkTimers,     \* the timeouts of scheduleNextCheck pending in the event loop
    lastSaveTime,    \* SnapshotManager.lastSaveTime
    lastDirtyCount,  \* SnapshotManager.lastDirtyCount
    smStore,         \* SnapshotManager.store is set
    files,           \* file system: path -> snapshot content
    writes,          \* the snapshot writes issued by the latest handler
    ttlGiven,        \* key -> the TTL (ms) given when its expiry record was made
    last,            \* the call or callback that produced this state
    items,           \* the values the peer sends on the socket, in order
    fed,             \* number of bytes of them handed to handleSocketData
    chunks,          \* number of calls of handleSocketData so far
    parser,          \* RESPParser: buffer, offset, bufferSize
    commands,        \* the commands passed to onCommand, in order
    socketWrites,    \* the replies written to the socket, in order
    clientParsers,   \* clientParsers holds a parser for the socket
    parseError,      \* the error caught by the latest parse(), if any
    bulkStr,         \* the value handed to formatBulkString
    response,        \* the reply formatBulkString returned for it
    bufferPool,      \* BufferPool.pool of the parser module: the buffers held
    parsers          \* the RESPParser objects made: buffer, bufferSize

\* the state of one connection: its input, its parser and its output
parserVars == <<items, fed, chunks, parser, commands, socketWrites, clientParsers,
                parseError, bulkStr, response, bufferPool, parsers>>

vars == <<now, permanentStore, ttlStore, ttlTable, timeouts,
          cleanupIntervalId, lastCleanup, dirty, expiredCount, rules, timer,
          checkTimers, lastSaveTime, lastDirtyCount, smStore, files, writes, ttlGiven,
          last, items, fed, chunks, parser, commands, socketWrites, clientParsers,
          parseError, bulkStr, response, bufferPool, parsers>>

----------------------------------------------------------------------------
(* Bounds of the model *)

NumKeys == 1
NumValues == 2
MaxNow == 2000
TickMs == 1000
MaxDirty == 3
\* longest save configuration text tried
MaxConfigLen == 7
\* most items a peer sends on a connection
MaxItems == 2
\* most chunks a connection's input arrives in
MaxChunks == 2
\* size of a buffer of the pool (1024 in the code), in bytes
PoolBufferSize == 32
\* the parser objects made by the program
NumParsers == 2
\* the length of a chunk handed to parse(), and the most bytes a parser
\* is made to hold unread
ChunkLen == 20
MaxBuffered == 60
\* most dispose() calls on one parser
MaxDisposals == 2

Keys == 1..NumKeys
Values == 1..NumValues

\* arguments tried for expire(key, seconds) and set(key, value, ttlSeconds)
SecondsArgs == {0, 1}
\* arguments tried for pexpire(key, milliseconds)
MillisArgs == {-1, 1500}

----------------------------------------------------------------------------
(* Program constants and representation of absent values *)

LAZY_CLEANUP_THRESHOLD == 1000
MAX_CLEANUP_BATCH == 100
\* TTLManager.cleanupInterval default
CleanupIntervalMs == 100
\* sample size of one sweep pass
SampleSize == 20
\* delay of the next check when no rule's change threshold is met
IdleCheckMs == 60000
MsPerSecond == 1000
\* RESPParser._readLine: contents shorter than this are searched with indexOf
SmallSearch == 64

\* Map.get / store.get returning undefined
NoValue == 0
\* no TTLEntry for the key
NoEntry == -1
\* ttl()/pttl() results
TTL_NONE == -1
TTL_ABSENT == -2

NoTimer == [set |-> FALSE, due |-> 0, pending |-> FALSE]
Pending(t) == [set |-> TRUE, due |-> t, pending |-> TRUE]

Max(a, b) == IF a >= b THEN a ELSE b
Min(a, b) == IF a <= b THEN a ELSE b

\* the paths used: the manager's configured snapshotFilePath and another one
DefaultPath == "dump"
OtherPath == "other"
Paths == {DefaultPath, OtherPath}
\* the numbers of the paths, as recorded for a call
PathId(filePath) == IF filePath = DefaultPath THEN 1 ELSE 2

EmptyMap == [k \in Keys |-> NoValue]

\* the snapshot text of a file: for each key its base64 string, << >> when
\* the JSON object has no such key
NoText == [k \in Keys |-> << >>]

\* a path with no file
NoFile == [exists |-> FALSE, kind |-> "none", data |-> NoText]
\* a file of length 0
EmptyFile == [exists |-> TRUE, kind |-> "empty", data |-> NoText]
\* a file whose content JSON.parse rejects
GarbageFile == [exists |-> TRUE, kind |-> "garbage", data |-> NoText]
\* a file holding the JSON object with the given base64 strings
JsonFile(data) == [exists |-> TRUE, kind |-> "json", data |-> data]

\* the bytes of a stored value: value v is a Buffer of v bytes
ValueBytes(v) == [i \in 1..v |-> 250 + i]

\* a Buffer that is none of the values written by the commands
Garbled == NumValues + 1

\* the value whose bytes are given
BytesValue(bytes) ==
    IF \E v \in Values : ValueBytes(v) = bytes
    THEN CHOOSE v \in Values : ValueBytes(v) = bytes
    ELSE Garbled

\* value.toString("base64"): 3 bytes become 4 characters, written here as
\* their 6-bit numbers 0..63, with 64 for the padding character "="
RECURSIVE ToBase64(_)
ToBase64(bytes) ==
    IF bytes = << >>
    THEN << >>
    ELSE LET n == Min(3, Len(bytes))
             b(i) == IF i <= n THEN bytes[i] ELSE 0
             bits == b(1) * 65536 + b(2) * 256 + b(3)
             quad == << bits \div 262144,
                        (bits \div 4096) % 64,
                        IF n >= 2 THEN (bits \div 64) % 64 ELSE 64,
                        IF n = 3 THEN bits % 64 ELSE 64 >>
         IN  quad \o ToBase64(SubSeq(bytes, n + 1, Len(bytes)))

\* the characters of a base64 string that the decoder uses: padding and
\* characters outside the alphabet are skipped
Sextets(text) == SelectSeq(text, LAMBDA c : c \in 0..63)

RECURSIVE FromSextets(_)
FromSextets(s) ==
    IF Len(s) < 2
    THEN << >>
    ELSE LET n == Min(4, Len(s))
             c(i) == IF i <= n THEN s[i] ELSE 0
             bits == c(1) * 262144 + c(2) * 4096 + c(3) * 64 + c(4)
             bytes == << bits \div 65536, (bits \div 256) % 256, bits % 256 >>
         IN  SubSeq(bytes, 1, n - 1) \o FromSextets(SubSeq(s, n + 1, Len(s)))

\* Buffer.from(base64Value, "base64")
FromBase64(text) == FromSextets(Sextets(text))

\* the fields of the store, the TTL manager and the snapshot manager when a
\* handler is entered (it has issued no write yet)
W == [now |-> now, permanentStore |-> permanentStore, ttlStore |-> ttlStore,
      ttlTable |-> ttlTable, timeouts |-> timeouts,
      cleanupIntervalId |-> cleanupIntervalId, lastCleanup |-> lastCleanup,
      dirty |-> dirty, expiredCount |-> expiredCount, rules |-> rules,
      timer |-> timer, checkTimers |-> checkTimers,
      lastSaveTime |-> lastSaveTime,
      lastDirtyCount |-> lastDirtyCount, smStore |-> smStore, files |-> files,
      writes |-> << >>]

\* no error
NoError == [kind |-> "none", text |-> << >>, at |-> 0]

\* the parser objects
ParserIds == 1..NumParsers

\* a parser object that has not been made
NoParser == [made |-> FALSE, live |-> FALSE, disposals |-> 0,
             buffer |-> [id |-> 0, length |-> 0], bufferSize |-> 0]

\* no value is being formatted
NoString == [null |-> TRUE, bytes |-> << >>]

\* no connection is open
NoConnection ==
    /\ items = << >>
    /\ fed = 0
    /\ chunks = 0
    /\ parser = [buffer |-> << >>, offset |-> 0, bufferSize |-> 0]
    /\ commands = << >>
    /\ socketWrites = << >>
    /\ clientParsers = FALSE
    /\ parseError = NoError
    /\ bulkStr = NoString
    /\ response = << >>
    /\ bufferPool = << >>
    /\ parsers = [i \in ParserIds |-> NoParser]

\* the handler's result becomes the next state
Becomes(w) ==
    /\ now' = w.now
    /\ permanentStore' = w.permanentStore
    /\ ttlStore' = w.ttlStore
    /\ ttlTable' = w.ttlTable
    /\ timeouts' = w.timeouts
    /\ cleanupIntervalId' = w.cleanupIntervalId
    /\ lastCleanup' = w.lastCleanup
    /\ dirty' = w.dirty
    /\ expiredCount' = w.expiredCount
    /\ rules' = w.rules
    /\ timer' = w.timer
    /\ checkTimers' = w.checkTimers
    /\ lastSaveTime' = w.lastSaveTime
    /\ lastDirtyCount' = w.lastDirtyCount
    /\ smStore' = w.smStore
    /\ files' = w.files
    /\ writes' = w.writes
    /\ UNCHANGED parserVars

\* the TTLs given for the keys that have an expiry record after the handler
Given(w, given) ==
    ttlGiven' = [k \in Keys |-> IF w.ttlTable[k] = NoEntry THEN 0 ELSE given[k]]

----------------------------------------------------------------------------
(* TTLManager, src/store/ttl.ts *)

RECURSIVE StoreDelete(_, _)
RECURSIVE TTLDelete(_, _)

\* TTLManager.clearTimeout
ClearTimeout(w, key) ==
    IF w.timeouts[key].set
    THEN [w EXCEPT !.timeouts[key] = NoTimer]
    ELSE w

\* isExpired comparing with > instead of >=
IsExpired_Late(w, key) ==
    /\ w.ttlTable[key] # NoEntry
    /\ w.now > w.ttlTable[key]

\* TTLManager.isExpired
IsExpired(w, key) ==
    /\ w.ttlTable[key] # NoEntry
    /\ w.now >= w.ttlTable[key]

\* the onDelete callback given to the TTLManager by the store's constructor
OnDelete(w, key) == StoreDelete(w, key).w

\* TTLManager.delete
TTLDelete(w, key) ==
    IF w.ttlTable[key] # NoEntry
    THEN LET w1 == ClearTimeout(w, key)
             w2 == [w1 EXCEPT !.ttlTable[key] = NoEntry]
         IN  OnDelete(w2, key)
    ELSE w

\* delete that counts a change also when the key was in neither region
StoreDelete_AlwaysDirty(w, key) ==
    LET deletedFromTTL == w.ttlStore[key] # NoValue
        deletedFromPermanent == w.permanentStore[key] # NoValue
        w1 == [w EXCEPT !.ttlStore[key] = NoValue,
                        !.permanentStore[key] = NoValue]
        w2 == IF deletedFromTTL \/ deletedFromPermanent
              THEN TTLDelete(w1, key)
              ELSE w1
    IN  [w |-> [w2 EXCEPT !.dirty = @ + 1],
         ret |-> deletedFromTTL \/ deletedFromPermanent]

\* KeyValueStore.delete
StoreDelete(w, key) ==
    LET deletedFromTTL == w.ttlStore[key] # NoValue
        deletedFromPermanent == w.permanentStore[key] # NoValue
        w1 == [w EXCEPT !.ttlStore[key] = NoValue,
                        !.permanentStore[key] = NoValue]
    IN  IF deletedFromTTL \/ deletedFromPermanent
        THEN LET w2 == TTLDelete(w1, key)
             IN  [w |-> [w2 EXCEPT !.dirty = @ + 1], ret |-> TRUE]
        ELSE [w |-> w1, ret |-> FALSE]

\* expire / pexpire that records the expiry instant but sets no timer
SetExpiry_NoTimer(w, key, delayMs) ==
    LET w1 == ClearTimeout(w, key)
    IN  IF delayMs <= 0
        THEN OnDelete([w1 EXCEPT !.ttlTable[key] = NoEntry], key)
        ELSE [w1 EXCEPT !.ttlTable[key] = w1.now + delayMs]

\* the body of TTLManager.expire / pexpire for a delay in milliseconds
SetExpiry(w, key, delayMs) ==
    LET w1 == ClearTimeout(w, key)
    IN  IF delayMs <= 0
        THEN OnDelete([w1 EXCEPT !.ttlTable[key] = NoEntry], key)
        ELSE [w1 EXCEPT !.ttlTable[key] = w1.now + delayMs,
                        !.timeouts[key] = Pending(w1.now + delayMs)]

\* TTLManager.expire
TTLExpire(w, key, seconds) == SetExpiry(w, key, seconds * MsPerSecond)

\* TTLManager.pexpire
TTLPexpire(w, key, milliseconds) == SetExpiry(w, key, milliseconds)

\* ttl rounding the remaining time down instead of up
TTLTtl_Floor(w, key) ==
    IF w.ttlTable[key] = NoEntry
    THEN [w |-> w, ret |-> TTL_NONE]
    ELSE LET remainingMs == w.ttlTable[key] - w.now
         IN  IF remainingMs <= 0
             THEN [w |-> OnDelete([w EXCEPT !.ttlTable[key] = NoEntry], key),
                   ret |-> TTL_ABSENT]
             ELSE [w |-> w, ret |-> remainingMs \div MsPerSecond]

\* TTLManager.ttl
TTLTtl(w, key) ==
    IF w.ttlTable[key] = NoEntry
    THEN [w |-> w, ret |-> TTL_NONE]
    ELSE LET remainingMs == w.ttlTable[key] - w.now
         IN  IF remainingMs <= 0
             THEN [w |-> OnDelete([w EXCEPT !.ttlTable[key] = NoEntry], key),
                   ret |-> TTL_ABSENT]
             ELSE [w |-> w,
                   ret |-> (remainingMs + MsPerSecond - 1) \div MsPerSecond]

\* TTLManager.pttl
TTLPttl(w, key) ==
    IF w.ttlTable[key] = NoEntry
    THEN [w |-> w, ret |-> TTL_NONE]
    ELSE LET remainingMs == w.ttlTable[key] - w.now
         IN  IF remainingMs <= 0
             THEN [w |-> OnDelete([w EXCEPT !.ttlTable[key] = NoEntry], key),
                   ret |-> TTL_ABSENT]
             ELSE [w |-> w, ret |-> Max(0, remainingMs)]

\* TTLManager.persist
TTLPersist(w, key) ==
    LET w1 == ClearTimeout(w, key)
    IN  [w |-> [w1 EXCEPT !.ttlTable[key] = NoEntry],
         ret |-> w1.ttlTable[key] # NoEntry]

\* TTLManager.clear
TTLClear(w) ==
    [w EXCEPT !.timeouts = [k \in Keys |-> NoTimer],
              !.ttlTable = [k \in Keys |-> NoEntry]]

\* dispose that clears the expiry records but leaves the timers of the keys
TTLDispose_KeepsTimers(w) ==
    [w EXCEPT !.cleanupIntervalId = FALSE,
              !.ttlTable = [k \in Keys |-> NoEntry]]

\* TTLManager.dispose
TTLDispose(w) ==
    [w EXCEPT !.cleanupIntervalId = FALSE,
              !.timeouts = [k \in Keys |-> NoTimer],
              !.ttlTable = [k \in Keys |-> NoEntry]]

\* a sweep pass that evicts every sampled key, expired or not
RECURSIVE SweepKeys_EvictsAll(_, _)
SweepKeys_EvictsAll(w, sample) ==
    IF sample = {}
    THEN w
    ELSE LET key == CHOOSE k \in sample : TRUE
         IN  SweepKeys_EvictsAll(
                 OnDelete([w EXCEPT !.ttlTable[key] = NoEntry], key),
                 sample \ {key})

\* a sweep pass over the sampled keys: TTLManager.startCleanupLoop, the loop body
RECURSIVE SweepKeys(_, _)
SweepKeys(w, sample) ==
    IF sample = {}
    THEN w
    ELSE LET key == CHOOSE k \in sample : TRUE
             w1 == IF IsExpired(w, key)
                   THEN OnDelete([w EXCEPT !.ttlTable[key] = NoEntry], key)
                   ELSE w
         IN  SweepKeys(w1, sample \ {key})

\* the keys that have a TTLEntry
KeysWithTTL(w) == {k \in DOMAIN w.ttlTable : w.ttlTable[k] # NoEntry}

\* the subsets of a set of numbers that have the given size
RECURSIVE SubsetsOfSize(_, _)
SubsetsOfSize(set, size) ==
    IF size = 0
    THEN {{}}
    ELSE UNION {{rest \cup {x} :
                    rest \in SubsetsOfSize({y \in set : y > x}, size - 1)} :
                x \in set}

\* the sets of distinct keys one sweep pass can draw: every pick is spliced
\* out of keysWithTTL, so a pass draws Min(20, length) different keys, that
\* is all the keys but length - Min(20, length) of them
Samples(w) ==
    LET Drawn(keysWithTTL) ==
            {keysWithTTL \ skipped :
                skipped \in SubsetsOfSize(keysWithTTL,
                                Cardinality(keysWithTTL)
                                    - Min(SampleSize, Cardinality(keysWithTTL)))}
    IN  Drawn(KeysWithTTL(w))

\* the interval callback of TTLManager.startCleanupLoop
SweepPass(w, sample) ==
    IF w.now - w.lastCleanup < CleanupIntervalMs
    THEN w
    ELSE SweepKeys([w EXCEPT !.lastCleanup = w.now], sample)

----------------------------------------------------------------------------
(* KeyValueStore, src/store/store.ts *)

\* the region a key is stored in
Region(w, key) ==
    IF w.permanentStore[key] # NoValue THEN "perm"
    ELSE IF w.ttlStore[key] # NoValue THEN "vol"
    ELSE "none"

\* this.delete(key) for each of the keys, in ascending order: the lower
\* half of the keys is deleted, then the others in the store that results
RECURSIVE DeleteKeys(_, _)
DeleteKeys(w, keys) ==
    IF keys = {}
    THEN w
    ELSE IF Cardinality(keys) = 1
    THEN StoreDelete(w, CHOOSE k \in keys : TRUE).w
    ELSE LET first == {k \in keys : Cardinality({j \in keys : j < k})
                                       < Cardinality(keys) \div 2}
             w1 == DeleteKeys(w, first)
         IN  IF w1.dirty >= w.dirty
             THEN DeleteKeys(w1, keys \ first)
             ELSE w1

\* the keys one cleanup pass deletes: the expired entries of ttlStore it
\* meets before the batch is full.  The pass goes through ttlStore in the
\* order of insertion, which is the order of the keys wherever the model
\* holds more than MAX_CLEANUP_BATCH of them
CleanupVictims(w) ==
    LET expired == {k \in DOMAIN w.ttlStore :
                       w.ttlStore[k] # NoValue /\ IsExpired(w, k)}
    IN  {k \in expired :
            Cardinality({j \in expired : j < k}) < MAX_CLEANUP_BATCH}

\* the entries of ttlStore one cleanup pass visits (calls isExpired for):
\* the loop ends when MAX_CLEANUP_BATCH keys have been cleaned or ttlStore
\* has been gone through
CleanupVisited(w) ==
    LET entries == {k \in DOMAIN w.ttlStore : w.ttlStore[k] # NoValue}
        Upto(victims) ==
            IF Cardinality(victims) < MAX_CLEANUP_BATCH
            THEN entries
            ELSE {k \in entries : \E v \in victims : k <= v}
    IN  IF w.expiredCount < LAZY_CLEANUP_THRESHOLD
        THEN {}
        ELSE Upto(CleanupVictims(w))

\* KeyValueStore.cleanupExpired
CleanupExpired(w) ==
    IF w.expiredCount < LAZY_CLEANUP_THRESHOLD
    THEN w
    ELSE LET victims == CleanupVictims(w)
             cleaned == Cardinality(victims)
             w1 == DeleteKeys(w, victims)
         IN  [w1 EXCEPT !.expiredCount = Max(0, w1.expiredCount - cleaned)]

\* KeyValueStore.get
StoreGet(w, key) ==
    IF w.permanentStore[key] # NoValue
    THEN [w |-> w, ret |-> w.permanentStore[key]]
    ELSE IF w.ttlStore[key] = NoValue
    THEN [w |-> w, ret |-> NoValue]
    ELSE IF IsExpired(w, key)
    THEN LET w1 == StoreDelete(w, key).w
         IN  [w |-> [w1 EXCEPT !.expiredCount = @ + 1], ret |-> NoValue]
    ELSE [w |-> w, ret |-> w.ttlStore[key]]

\* set that does not remove the key from the permanent store first
StoreSet_KeepsPermanent(w, key, value, ttlSeconds) ==
    LET w0 == [w EXCEPT !.ttlStore[key] = NoValue]
        w1 == IF ttlSeconds # << >>
              THEN TTLExpire([w0 EXCEPT !.ttlStore[key] = value], key,
                             ttlSeconds[1])
              ELSE TTLPersist([w0 EXCEPT !.permanentStore[key] = value],
                              key).w
    IN  CleanupExpired([w1 EXCEPT !.dirty = @ + 1])

\* set that does not call ttlManager.persist for a key written without TTL
StoreSet_NoPersist(w, key, value, ttlSeconds) ==
    LET w0 == [w EXCEPT !.permanentStore[key] = NoValue,
                        !.ttlStore[key] = NoValue]
        w1 == IF ttlSeconds # << >>
              THEN TTLExpire([w0 EXCEPT !.ttlStore[key] = value], key,
                             ttlSeconds[1])
              ELSE [w0 EXCEPT !.permanentStore[key] = value]
    IN  CleanupExpired([w1 EXCEPT !.dirty = @ + 1])

\* KeyValueStore.set; ttlSeconds is << >> when the argument is not given
StoreSet(w, key, value, ttlSeconds) ==
    LET w0 == [w EXCEPT !.permanentStore[key] = NoValue,
                        !.ttlStore[key] = NoValue]
        w1 == IF ttlSeconds # << >>
              THEN TTLExpire([w0 EXCEPT !.ttlStore[key] = value], key,
                             ttlSeconds[1])
              ELSE TTLPersist([w0 EXCEPT !.permanentStore[key] = value],
                              key).w
    IN  CleanupExpired([w1 EXCEPT !.dirty = @ + 1])

\* KeyValueStore.expire
StoreExpire(w, key, seconds) ==
    IF w.ttlStore[key] = NoValue
    THEN [w |-> w, ret |-> FALSE]
    ELSE LET w1 == TTLExpire(w, key, seconds)
         IN  [w |-> [w1 EXCEPT !.dirty = @ + 1], ret |-> TRUE]

\* pexpire that copies a permanent key to the TTL store without removing it
\* from the permanent store
StorePexpire_KeepsPermanent(w, key, milliseconds) ==
    LET g == StoreGet(w, key)
    IN  IF g.ret = NoValue
        THEN [w |-> g.w, ret |-> FALSE]
        ELSE LET w1 == [g.w EXCEPT !.ttlStore[key] = g.ret]
                 w2 == TTLPexpire(w1, key, milliseconds)
             IN  [w |-> [w2 EXCEPT !.dirty = @ + 1], ret |-> TRUE]

\* KeyValueStore.pexpire
StorePexpire(w, key, milliseconds) ==
    LET g == StoreGet(w, key)
    IN  IF g.ret = NoValue
        THEN [w |-> g.w, ret |-> FALSE]
        ELSE LET w1 == IF g.w.permanentStore[key] # NoValue
                       THEN [g.w EXCEPT !.permanentStore[key] = NoValue,
                                        !.ttlStore[key] = g.ret]
                       ELSE g.w
                 w2 == TTLPexpire(w1, key, milliseconds)
             IN  [w |-> [w2 EXCEPT !.dirty = @ + 1], ret |-> TRUE]

\* KeyValueStore.ttl
StoreTtl(w, key) ==
    IF w.permanentStore[key] # NoValue
    THEN [w |-> w, ret |-> TTL_NONE]
    ELSE IF w.ttlStore[key] = NoValue
    THEN [w |-> w, ret |-> TTL_ABSENT]
    ELSE TTLTtl(w, key)

\* KeyValueStore.pttl
StorePttl(w, key) ==
    IF w.permanentStore[key] # NoValue
    THEN [w |-> w, ret |-> TTL_NONE]
    ELSE IF w.ttlStore[key] = NoValue
    THEN [w |-> w, ret |-> TTL_ABSENT]
    ELSE TTLPttl(w, key)

\* KeyValueStore.persist
StorePersist(w, key) ==
    IF w.ttlStore[key] = NoValue
    THEN [w |-> w, ret |-> FALSE]
    ELSE LET p == TTLPersist(w, key)
         IN  [w |-> IF p.ret THEN [p.w EXCEPT !.dirty = @ + 1] ELSE p.w,
              ret |-> p.ret]

\* KeyValueStore.getStore
GetStore(w) ==
    [k \in Keys |-> IF w.ttlStore[k] # NoValue THEN w.ttlStore[k]
                    ELSE w.permanentStore[k]]

\* loadFromSnapshot that keeps the volatile region and the expiry records
LoadFromSnapshot_KeepsTTL(w, loadedStore) ==
    [w EXCEPT !.permanentStore = loadedStore, !.dirty = 0, !.expiredCount = 0]

\* KeyValueStore.loadFromSnapshot
LoadFromSnapshot(w, loadedStore) ==
    LET w1 == [w EXCEPT !.permanentStore = loadedStore,
                        !.ttlStore = EmptyMap]
    IN  [TTLClear(w1) EXCEPT !.dirty = 0, !.expiredCount = 0]

\* KeyValueStore.dispose
StoreDispose(w) ==
    [TTLDispose(w) EXCEPT !.ttlStore = EmptyMap,
                          !.permanentStore = EmptyMap,
                          !.expiredCount = 0]

----------------------------------------------------------------------------
(* SnapshotManager, src/persistence/snapshot-manager.ts *)

\* the record kept of a call of saveSnapshotToFile: who called it, for which
\* path, and whether the write succeeded
Issued(w, by, filePath, ok) ==
    [w EXCEPT !.writes = Append(@, [by |-> by, path |-> filePath, ok |-> ok])]

\* SnapshotManager.saveSnapshotToFile; ok is whether the file system accepts
\* the write, threw is whether the error is rethrown to the caller
SaveSnapshotToFile(w, store, filePath, ok) ==
    LET snapshotData ==
            [k \in Keys |-> IF store[k] = NoValue
                            THEN << >>
                            ELSE ToBase64(ValueBytes(store[k]))]
    IN  IF ok
        THEN [w |-> [w EXCEPT !.files[filePath] = JsonFile(snapshotData)],
              threw |-> FALSE]
        ELSE [w |-> w, threw |-> TRUE]

\* SnapshotManager.loadSnapshotFromFile
LoadSnapshotFromFile(w, filePath) ==
    IF ~w.files[filePath].exists
    THEN EmptyMap
    ELSE IF w.files[filePath].kind # "json"
    THEN EmptyMap
    ELSE [k \in Keys |->
            IF w.files[filePath].data[k] = << >>
            THEN NoValue
            ELSE BytesValue(FromBase64(w.files[filePath].data[k]))]

\* the characters of the save configurations tried, by character code:
\* " ", "0", "1" and "x"
ConfigChars == {32, 48, 49, 120}

\* the save configurations tried
ConfigTexts == UNION {[1..n -> ConfigChars] : n \in 0..MaxConfigLen}

\* \s
IsSpace(c) == c = 32
\* a decimal digit
IsDigit(c) == c \in 48..57

\* the text without its leading white space
RECURSIVE TrimLeft(_)
TrimLeft(text) ==
    IF text # << >> /\ IsSpace(Head(text)) THEN TrimLeft(Tail(text)) ELSE text

\* the text without its trailing white space
RECURSIVE TrimRight(_)
TrimRight(text) ==
    IF text # << >> /\ IsSpace(text[Len(text)])
    THEN TrimRight(SubSeq(text, 1, Len(text) - 1))
    ELSE text

\* saveConfig.trim()
Trim(text) == TrimLeft(TrimRight(text))

\* the length of the first run of characters that are no white space
RECURSIVE WordLen(_)
WordLen(text) ==
    IF text = << >> \/ IsSpace(Head(text)) THEN 0 ELSE 1 + WordLen(Tail(text))

\* split(/\s+/) of a trimmed text that is not empty
RECURSIVE Split(_)
Split(text) ==
    IF text = << >>
    THEN << >>
    ELSE LET n == WordLen(text)
         IN  <<SubSeq(text, 1, n)>>
                 \o Split(TrimLeft(SubSeq(text, n + 1, Len(text))))

\* the number written by a sequence of digits
RECURSIVE DigitsValue(_)
DigitsValue(digits) ==
    IF digits = << >>
    THEN 0
    ELSE 10 * DigitsValue(SubSeq(digits, 1, Len(digits) - 1))
            + (digits[Len(digits)] - 48)

\* the length of the leading run of digits
RECURSIVE DigitsLen(_)
DigitsLen(str) ==
    IF str = << >> \/ ~IsDigit(Head(str)) THEN 0 ELSE 1 + DigitsLen(Tail(str))

\* Number.parseInt(str, 10): leading white space is skipped, an optional
\* sign and the leading digits are read, what follows them is ignored; NaN
\* when there is no leading digit
ParseInt(str) ==
    LET text == TrimLeft(str)
        signed == text # << >> /\ Head(text) \in {43, 45}
        body == IF signed THEN Tail(text) ELSE text
        n == DigitsLen(body)
        magnitude == DigitsValue(SubSeq(body, 1, n))
    IN  IF n = 0
        THEN [nan |-> TRUE, val |-> 0]
        ELSE [nan |-> FALSE,
              val |-> IF signed /\ Head(text) = 45 THEN 0 - magnitude
                      ELSE magnitude]

\* SnapshotManager.parseRules: the rules it leaves in this.rules
ParseRules(saveConfig) ==
    IF Trim(saveConfig) = << >>
    THEN << >>
    ELSE LET parts == Split(Trim(saveConfig))
             pairs == Len(parts) \div 2
             seconds(i) == ParseInt(parts[2 * i - 1])
             changes(i) == ParseInt(parts[2 * i])
             invalid(i) == \/ seconds(i).nan
                           \/ changes(i).nan
                           \/ seconds(i).val <= 0
                           \/ changes(i).val <= 0
         IN  IF Len(parts) % 2 # 0
             THEN << >>
             ELSE IF \E i \in 1..pairs : invalid(i)
             THEN << >>
             ELSE [i \in 1..pairs |->
                     [seconds |-> seconds(i).val, changes |-> changes(i).val]]

\* new SnapshotManager(saveConfig): the field initialisers and parseRules
NewSnapshotManager(w, saveConfig) ==
    [w EXCEPT !.rules = ParseRules(saveConfig),
              !.timer = NoTimer,
              !.lastSaveTime = w.now,
              !.lastDirtyCount = 0,
              !.smStore = FALSE]

\* a rule test that looks at the elapsed time only
RuleMet_TimeOnly(w, rule) ==
    w.now - w.lastSaveTime >= rule.seconds * MsPerSecond

\* the test of one save rule in scheduleNextCheck
RuleMet(w, rule) ==
    /\ w.dirty >= rule.changes
    /\ w.now - w.lastSaveTime >= rule.seconds * MsPerSecond

\* the waits of all the rules, whether their change threshold is met or not
MetDelays_AllRules(w) ==
    {Max(0, w.rules[i].seconds * MsPerSecond - (w.now - w.lastSaveTime)) :
        i \in 1..Len(w.rules)}

\* the waits of the rules whose change threshold is met, in scheduleNextCheck
MetDelays(w) ==
    {Max(0, w.rules[i].seconds * MsPerSecond - (w.now - w.lastSaveTime)) :
        i \in {j \in 1..Len(w.rules) : w.dirty >= w.rules[j].changes}}

\* earliestCheck of scheduleNextCheck
EarliestCheck(w) ==
    IF MetDelays(w) = {}
    THEN IdleCheckMs
    ELSE CHOOSE d \in MetDelays(w) : \A e \in MetDelays(w) : d <= e

\* the delay of the timer set by scheduleNextCheck
NextCheckDelay(w) == Max(0, EarliestCheck(w))

\* clearTimeout(this.timer); this.timer = null. this.timer is only ever
\* assigned the result of the latest setTimeout, so while its timeout is
\* pending it is the one created last
ClearCheckTimer(w) ==
    IF ~w.timer.set
    THEN w
    ELSE [w EXCEPT !.timer = NoTimer,
                   !.checkTimers =
                       IF w.timer.pending
                       THEN SubSeq(@, 1, Len(@) - 1)
                       ELSE @]

\* this.timer = setTimeout(() => this.scheduleNextCheck(), delay)
SetCheckTimer(w, delay) ==
    [w EXCEPT !.timer = Pending(w.now + delay),
              !.checkTimers = Append(@, w.now + delay)]

RECURSIVE ScheduleNextCheck(_, _)

\* SnapshotManager.save
Save(w, ok) ==
    IF ~w.smStore
    THEN w
    ELSE LET s == SaveSnapshotToFile(Issued(w, "save", DefaultPath, ok),
                                     GetStore(w), DefaultPath, ok)
         IN  IF s.threw
             THEN s.w
             ELSE ScheduleNextCheck(
                      [s.w EXCEPT !.lastSaveTime = s.w.now,
                                  !.lastDirtyCount = 0], ok)

\* scheduleNextCheck without the clearTimeout of the previous timer
ScheduleNextCheck_NoClear(w, ok) ==
    IF ~w.smStore
    THEN w
    ELSE LET w1 == [w EXCEPT !.timer = NoTimer]
         IN  IF w1.rules = << >>
             THEN w1
             ELSE IF \E i \in 1..Len(w1.rules) : RuleMet(w1, w1.rules[i])
             THEN Save(w1, ok)
             ELSE SetCheckTimer(w1, NextCheckDelay(w1))

\* SnapshotManager.scheduleNextCheck
ScheduleNextCheck(w, ok) ==
    IF ~w.smStore
    THEN w
    ELSE LET w1 == ClearCheckTimer(w)
         IN  IF w1.rules = << >>
             THEN w1
             ELSE IF \E i \in 1..Len(w1.rules) : RuleMet(w1, w1.rules[i])
             THEN Save(w1, ok)
             ELSE SetCheckTimer(w1, NextCheckDelay(w1))

\* SnapshotManager.setStore
SetStore(w, ok) == ScheduleNextCheck([w EXCEPT !.smStore = TRUE], ok)

\* SnapshotManager.start
SnapStart(w, ok) == IF ~w.smStore THEN w ELSE ScheduleNextCheck(w, ok)

\* SnapshotManager.stop
SnapStop(w) == ClearCheckTimer(w)

\* SnapshotManager.checkNow
SnapCheckNow(w, ok) ==
    IF ~w.smStore \/ ~w.timer.set THEN w ELSE ScheduleNextCheck(w, ok)

\* SnapshotManager.saveSnapshot
SnapSaveSnapshot(w, filePath, ok) ==
    IF ~w.smStore
    THEN [w |-> w, threw |-> FALSE]
    ELSE LET s == SaveSnapshotToFile(Issued(w, "saveSnapshot", filePath, ok),
                                     GetStore(w), filePath, ok)
         IN  IF s.threw
             THEN s
             ELSE [w |-> [s.w EXCEPT !.lastSaveTime = s.w.now],
                   threw |-> FALSE]

\* SnapshotManager.loadInitialSnapshot
LoadInitialSnapshot(w) ==
    IF ~w.smStore
    THEN w
    ELSE LoadFromSnapshot(w, LoadSnapshotFromFile(w, DefaultPath))

\* KeyValueStore.saveSnapshot; okCheck and okSave are the outcomes of the
\* write of a save that setStore triggers and of the write to filePath
StoreSaveSnapshot(w, filePath, okCheck, okSave) ==
    LET w1 == CleanupExpired(w)
        w2 == SetStore(w1, okCheck)
        s == SnapSaveSnapshot(w2, filePath, okSave)
    IN  IF s.threw
        THEN [w |-> s.w, threw |-> TRUE]
        ELSE [w |-> [s.w EXCEPT !.dirty = 0], threw |-> FALSE]

\* KeyValueStore.loadSnapshot
StoreLoadSnapshot(w, filePath, okCheck) ==
    LET w1 == [TTLClear([w EXCEPT !.permanentStore = EmptyMap,
                                  !.ttlStore = EmptyMap])
                  EXCEPT !.dirty = 0, !.expiredCount = 0]
        w2 == SetStore(w1, okCheck)
    IN  LoadInitialSnapshot(w2)

----------------------------------------------------------------------------
(* The state machine *)

\* save configurations tried: none, "1 2" and "2 1 1 3"
RuleConfigs ==
    { << >>,
      << [seconds |-> 1, changes |-> 2] >>,
      << [seconds |-> 2, changes |-> 1], [seconds |-> 1, changes |-> 3] >> }

\* the record of a call: what was called, with which key and numbers, the
\* number (ret) or truth value (ok) it returned, and what the key's situation
\* was when it was called
Call(op, key, arg, ret, ok) ==
    [op |-> op, key |-> key, arg |-> arg, ret |-> ret, ok |-> ok,
     preDirty |-> dirty,
     preRegion |-> IF key \in Keys THEN Region(W, key) ELSE "none",
     preExpired |-> IF key \in Keys
                    THEN ttlTable[key] # NoEntry /\ now >= ttlTable[key]
                    ELSE FALSE]

\* the record of a timer callback or of the passing of time
Event(op) ==
    [op |-> op, key |-> 0, arg |-> << >>, ret |-> 0, ok |-> FALSE,
     preDirty |-> 0, preRegion |-> "none", preExpired |-> FALSE]

\* the state after the module is loaded: the snapshot manager is built, the
\* store is built and registers itself (setStore)
Init ==
    /\ now = 0
    /\ permanentStore = EmptyMap
    /\ ttlStore = EmptyMap
    /\ ttlTable = [k \in Keys |-> NoEntry]
    /\ timeouts = [k \in Keys |-> NoTimer]
    /\ cleanupIntervalId = TRUE
    /\ lastCleanup = 0
    /\ dirty = 0
    /\ lastSaveTime = 0
    /\ lastDirtyCount = 0
    /\ smStore = TRUE
    /\ rules \in RuleConfigs
    /\ timer = IF rules = << >> THEN NoTimer ELSE Pending(IdleCheckMs)
    /\ checkTimers = IF rules = << >> THEN << >> ELSE <<IdleCheckMs>>
    \* either a new store, or (without save rules) a store that has seen
    \* LAZY_CLEANUP_THRESHOLD - 1 expired reads and was then saved when empty
    /\ \/ /\ expiredCount = 0
          /\ files = [p \in Paths |-> NoFile]
       \/ /\ rules = << >>
          /\ expiredCount = LAZY_CLEANUP_THRESHOLD - 1
          /\ files = [p \in Paths |->
                        IF p = OtherPath THEN JsonFile(NoText) ELSE NoFile]
    /\ writes = << >>
    /\ ttlGiven = [k \in Keys |-> 0]
    /\ NoConnection
    /\ last = Event("init")

Get(key) ==
    LET r == StoreGet(W, key)
    IN  /\ Becomes(r.w)
        /\ last' = Call("get", key, << >>, r.ret, FALSE)
        /\ Given(r.w, ttlGiven)

Set(key, value, ttlSeconds) ==
    /\ dirty < MaxDirty
    /\ Becomes(StoreSet(W, key, value, ttlSeconds))
    /\ last' = Call("set", key, <<value>> \o ttlSeconds, 0, FALSE)
    /\ Given(StoreSet(W, key, value, ttlSeconds),
             [ttlGiven EXCEPT ![key] =
                 IF ttlSeconds = << >> THEN 0
                 ELSE ttlSeconds[1] * MsPerSecond])

Expire(key, seconds) ==
    LET r == StoreExpire(W, key, seconds)
    IN  /\ dirty < MaxDirty
        /\ Becomes(r.w)
        /\ last' = Call("expire", key, <<seconds>>, 0, r.ret)
        /\ Given(r.w, IF r.ret
                       THEN [ttlGiven EXCEPT ![key] = seconds * MsPerSecond]
                       ELSE ttlGiven)

Pexpire(key, milliseconds) ==
    LET r == StorePexpire(W, key, milliseconds)
    IN  /\ dirty < MaxDirty
        /\ Becomes(r.w)
        /\ last' = Call("pexpire", key, <<milliseconds>>, 0, r.ret)
        /\ Given(r.w, IF r.ret
                       THEN [ttlGiven EXCEPT ![key] = milliseconds]
                       ELSE ttlGiven)

Ttl(key) ==
    LET r == StoreTtl(W, key)
    IN  /\ Becomes(r.w)
        /\ last' = Call("ttl", key, << >>, r.ret, FALSE)
        /\ Given(r.w, ttlGiven)

Pttl(key) ==
    LET r == StorePttl(W, key)
    IN  /\ Becomes(r.w)
        /\ last' = Call("pttl", key, << >>, r.ret, FALSE)
        /\ Given(r.w, ttlGiven)

Persist(key) ==
    LET r == StorePersist(W, key)
    IN  /\ dirty < MaxDirty
        /\ Becomes(r.w)
        /\ last' = Call("persist", key, << >>, 0, r.ret)
        /\ Given(r.w, ttlGiven)

Delete(key) ==
    LET r == StoreDelete(W, key)
    IN  /\ dirty < MaxDirty
        /\ Becomes(r.w)
        /\ last' = Call("delete", key, << >>, 0, r.ret)
        /\ Given(r.w, ttlGiven)

\* store.saveSnapshot(filePath); ok is false when the write error escapes
SaveSnapshot(filePath, okCheck, okSave) ==
    LET r == StoreSaveSnapshot(W, filePath, okCheck, okSave)
    IN  /\ Becomes(r.w)
        /\ last' = Call("saveSnapshot", 0, <<PathId(filePath)>>, 0, ~r.threw)
        /\ Given(r.w, ttlGiven)

\* store.loadSnapshot(filePath)
LoadSnapshot(filePath, okCheck) ==
    /\ Becomes(StoreLoadSnapshot(W, filePath, okCheck))
    /\ last' = Call("loadSnapshot", 0, <<PathId(filePath)>>, 0, FALSE)
    /\ Given(StoreLoadSnapshot(W, filePath, okCheck), ttlGiven)

\* snapshotManager.loadInitialSnapshot()
LoadInitial ==
    /\ Becomes(LoadInitialSnapshot(W))
    /\ last' = Call("loadInitialSnapshot", 0, << >>, 0, FALSE)
    /\ Given(LoadInitialSnapshot(W), ttlGiven)

\* store.dispose()
Dispose ==
    /\ Becomes(StoreDispose(W))
    /\ last' = [Event("dispose") EXCEPT
                    !.arg = <<Cardinality({k \in Keys : timeouts[k].set
                                                         /\ timeouts[k].pending})>>,
                    !.ok = cleanupIntervalId]
    /\ Given(StoreDispose(W), ttlGiven)

\* the one-shot timer of a key fires: the callback set in expire / pexpire
KeyTimerFire(key) ==
    /\ timeouts[key].set
    /\ timeouts[key].pending
    /\ now >= timeouts[key].due
    /\ Becomes(TTLDelete([W EXCEPT !.timeouts[key].pending = FALSE], key))
    /\ last' = [Event("keyTimer") EXCEPT !.key = key,
                                         !.ok = ttlTable[key] # NoEntry]
    /\ Given(TTLDelete([W EXCEPT !.timeouts[key].pending = FALSE], key), ttlGiven)

\* the numbers of a set in ascending order
RECURSIVE Ascending(_)
Ascending(set) ==
    IF set = {} THEN << >>
    ELSE LET least == CHOOSE x \in set : \A y \in set : x <= y
         IN  <<least>> \o Ascending(set \ {least})

\* the keys a sweep pass examines: none when the pass returns at once
Examined(w, sample) ==
    IF w.now - w.lastCleanup < CleanupIntervalMs
    THEN << >>
    ELSE Ascending(sample)

\* the interval timer of the TTL manager fires
Sweep ==
    /\ cleanupIntervalId
    /\ \E sample \in Samples(W) :
          /\ Becomes(SweepPass(W, sample))
          /\ last' = [Event("sweep") EXCEPT !.arg = Examined(W, sample)]
          /\ Given(SweepPass(W, sample), ttlGiven)

\* the event loop takes the i-th pending timeout of scheduleNextCheck off
\* its list to run its callback; this.timer keeps the handle
Fired(w, i) ==
    [w EXCEPT !.checkTimers = SubSeq(@, 1, i - 1) \o SubSeq(@, i + 1, Len(@)),
              !.timer = IF i = Len(w.checkTimers) /\ @.set /\ @.pending
                        THEN [@ EXCEPT !.pending = FALSE]
                        ELSE @]

\* the check timer of the snapshot manager fires
CheckTimerFire(ok) ==
    \E i \in DOMAIN checkTimers :
        /\ now >= checkTimers[i]
        /\ \E w \in {ScheduleNextCheck(Fired(W, i), ok)} :
              /\ Becomes(w)
              /\ last' = Call("checkTimer", 0, << >>, 0, ok)
              /\ Given(w, ttlGiven)

Start(ok) ==
    /\ Becomes(SnapStart(W, ok))
    /\ last' = Call("start", 0, << >>, 0, ok)
    /\ Given(SnapStart(W, ok), ttlGiven)

Stop ==
    /\ Becomes(SnapStop(W))
    /\ last' = Event("stop")
    /\ Given(SnapStop(W), ttlGiven)

CheckNow(ok) ==
    /\ Becomes(SnapCheckNow(W, ok))
    /\ last' = Call("checkNow", 0, << >>, 0, ok)
    /\ Given(SnapCheckNow(W, ok), ttlGiven)

\* time passes
Tick ==
    /\ now + TickMs <= MaxNow
    /\ Becomes([W EXCEPT !.now = now + TickMs])
    /\ last' = Event("tick")
    /\ Given([W EXCEPT !.now = now + TickMs], ttlGiven)

\* The store used on its own: no save rule is configured, so the snapshot
\* manager never schedules a check
InitStore ==
    /\ Init
    /\ rules = << >>

NextStore ==
    \/ \E key \in Keys : Get(key)
    \/ \E key \in Keys, value \in Values : Set(key, value, << >>)
    \/ \E key \in Keys, value \in Values, seconds \in SecondsArgs :
          Set(key, value, <<seconds>>)
    \/ \E key \in Keys, seconds \in SecondsArgs : Expire(key, seconds)
    \/ \E key \in Keys, milliseconds \in MillisArgs : Pexpire(key, milliseconds)
    \/ \E key \in Keys : Ttl(key)
    \/ \E key \in Keys : Pttl(key)
    \/ \E key \in Keys : Persist(key)
    \/ \E key \in Keys : Delete(key)
    \/ Dispose
    \/ \E key \in Keys : KeyTimerFire(key)
    \/ Sweep
    \/ Tick

SpecStore == InitStore /\ [][NextStore]_vars

\* A store of many keys: of count keys written at time 0 the first withTTL
\* were set with a TTL, the first soon of them with the shorter one, and
\* the others without TTL
StoreOfKeys(count, withTTL, soon) ==
    /\ permanentStore =
          [k \in 1..count |-> IF k > withTTL THEN 1 ELSE NoValue]
    /\ ttlStore =
          [k \in 1..count |-> IF k <= withTTL THEN 1 ELSE NoValue]
    /\ ttlTable =
          [k \in 1..count |->
              IF k <= soon THEN MsPerSecond
              ELSE IF k <= withTTL THEN 2 * MsPerSecond
              ELSE NoEntry]
    /\ timeouts =
          [k \in 1..count |->
              IF k <= soon THEN Pending(MsPerSecond)
              ELSE IF k <= withTTL THEN Pending(2 * MsPerSecond)
              ELSE NoTimer]

\* The sweep over a store of NumSweepKeys keys
NumSweepKeys == 21

InitSweep ==
    /\ now = 0
    /\ \E withTTL \in 0..NumSweepKeys : \E soon \in 0..withTTL :
          StoreOfKeys(NumSweepKeys, withTTL, soon)
    /\ dirty = NumSweepKeys
    /\ cleanupIntervalId = TRUE
    /\ lastCleanup = 0
    /\ expiredCount = 0
    /\ lastSaveTime = 0
    /\ lastDirtyCount = 0
    /\ smStore = TRUE
    /\ rules = << >>
    /\ timer = NoTimer
    /\ checkTimers = << >>
    /\ files = [p \in Paths |-> NoFile]
    /\ writes = << >>
    /\ ttlGiven = [k \in Keys |-> 0]
    /\ NoConnection
    /\ last = Event("init")

NextSweep ==
    \/ Sweep
    \/ Tick

SpecSweep == InitSweep /\ [][NextSweep]_vars

\* The lazy cleanup in a store of NumCleanupKeys keys, nearly all of them
\* with a TTL and of these nearly all or nearly none with the shorter one,
\* that has counted LAZY_CLEANUP_THRESHOLD - 1 or
\* LAZY_CLEANUP_THRESHOLD expired reads and was saved since; the first key
\* is read and written
NumCleanupKeys == 101

InitCleanup ==
    /\ now = 0
    /\ \E withTTL \in (NumCleanupKeys - 1)..NumCleanupKeys :
          \E soon \in {0, 1} \cup (withTTL - 2)..withTTL :
             StoreOfKeys(NumCleanupKeys, withTTL, soon)
    /\ dirty = 0
    /\ expiredCount \in {LAZY_CLEANUP_THRESHOLD - 1, LAZY_CLEANUP_THRESHOLD}
    /\ cleanupIntervalId = TRUE
    /\ lastCleanup = 0
    /\ lastSaveTime = 0
    /\ lastDirtyCount = 0
    /\ smStore = TRUE
    /\ rules = << >>
    /\ timer = NoTimer
    /\ checkTimers = << >>
    /\ files = [p \in Paths |-> NoFile]
    /\ writes = << >>
    /\ ttlGiven = [k \in Keys |-> 0]
    /\ NoConnection
    /\ last = Event("init")

NextCleanup ==
    \/ Get(1)
    \/ Set(1, 1, << >>)
    \/ Set(1, 1, <<1>>)
    \/ Tick

SpecCleanup == InitCleanup /\ [][NextCleanup]_vars

\* The calls and callbacks that make, renew and remove expiry records; the
\* value written plays no part in them
NextTimers ==
    \/ \E key \in Keys : Get(key)
    \/ \E key \in Keys : Set(key, 1, << >>)
    \/ \E key \in Keys, seconds \in SecondsArgs : Set(key, 1, <<seconds>>)
    \/ \E key \in Keys, seconds \in SecondsArgs : Expire(key, seconds)
    \/ \E key \in Keys, milliseconds \in MillisArgs : Pexpire(key, milliseconds)
    \/ \E key \in Keys : Persist(key)
    \/ \E key \in Keys : Delete(key)
    \/ \E key \in Keys : KeyTimerFire(key)
    \/ Sweep
    \/ Tick

\* The store with its timers dispatched fairly: the event loop runs a timer
\* callback once the timer is due, and time passes
SpecStoreFair ==
    /\ InitStore
    /\ [][NextTimers]_vars
    /\ WF_vars(Tick)
    /\ \A key \in Keys : WF_vars(KeyTimerFire(key))

\* The snapshot manager with save rules configured, driven by writes
\* without TTL, explicit saves and loads, and its own check timer
InitSnap ==
    /\ Init
    /\ rules # << >>

\* the keys written in this scenario
SnapKeys == {1}

NextSnap ==
    \/ \E key \in SnapKeys, value \in Values : Set(key, value, << >>)
    \/ \E key \in SnapKeys : Delete(key)
    \/ \E filePath \in Paths, okCheck \in BOOLEAN, okSave \in BOOLEAN :
          SaveSnapshot(filePath, okCheck, okSave)
    \/ \E filePath \in Paths, okCheck \in BOOLEAN :
          LoadSnapshot(filePath, okCheck)
    \/ \E ok \in BOOLEAN : CheckTimerFire(ok)
    \/ \E ok \in BOOLEAN : Start(ok)
    \/ Stop
    \/ \E ok \in BOOLEAN : CheckNow(ok)
    \/ Tick

SpecSnap == InitSnap /\ [][NextSnap]_vars

\* Saving and loading: no save rule is configured, and the file at the
\* manager's path is at first missing, empty, unparsable, a snapshot of
\* the first value under every key, or a JSON object whose strings hold no
\* base64 character ("!!", written 65 65)
LoadFiles ==
    { NoFile, EmptyFile, GarbageFile,
      JsonFile([k \in Keys |-> ToBase64(ValueBytes(1))]),
      JsonFile([k \in Keys |-> <<65, 65>>]) }

InitLoad ==
    /\ now = 0
    /\ permanentStore = EmptyMap
    /\ ttlStore = EmptyMap
    /\ ttlTable = [k \in Keys |-> NoEntry]
    /\ timeouts = [k \in Keys |-> NoTimer]
    /\ cleanupIntervalId = TRUE
    /\ lastCleanup = 0
    /\ dirty = 0
    /\ expiredCount = 0
    /\ lastSaveTime = 0
    /\ lastDirtyCount = 0
    /\ smStore = TRUE
    /\ rules = << >>
    /\ timer = NoTimer
    /\ checkTimers = << >>
    /\ \E f \in LoadFiles :
          files = [p \in Paths |-> IF p = DefaultPath THEN f ELSE NoFile]
    /\ writes = << >>
    /\ ttlGiven = [k \in Keys |-> 0]
    /\ NoConnection
    /\ last = Event("init")

NextLoad ==
    \/ \E key \in SnapKeys, value \in Values : Set(key, value, << >>)
    \/ \E key \in SnapKeys, value \in Values, seconds \in SecondsArgs :
          Set(key, value, <<seconds>>)
    \/ \E filePath \in Paths, okSave \in BOOLEAN :
          SaveSnapshot(filePath, TRUE, okSave)
    \/ \E filePath \in Paths : LoadSnapshot(filePath, TRUE)
    \/ LoadInitial
    \/ \E key \in SnapKeys : KeyTimerFire(key)
    \/ Tick

SpecLoad == InitLoad /\ [][NextLoad]_vars

\* Saving and loading together with the calls that move a key between the
\* regions
NextRegions ==
    \/ \E key \in SnapKeys, value \in Values : Set(key, value, << >>)
    \/ \E key \in SnapKeys, value \in Values, seconds \in SecondsArgs :
          Set(key, value, <<seconds>>)
    \/ SaveSnapshot(DefaultPath, TRUE, TRUE)
    \/ LoadSnapshot(DefaultPath, TRUE)
    \/ \E key \in SnapKeys : KeyTimerFire(key)
    \/ Tick
    \/ \E key \in SnapKeys, milliseconds \in MillisArgs :
          Pexpire(key, milliseconds)
    \/ \E key \in SnapKeys : Persist(key)

SpecRegions == InitLoad /\ [][NextRegions]_vars

\* new SnapshotManager(saveConfig), for the configuration text chosen
NewManager ==
    /\ last.op = "config"
    /\ Becomes(NewSnapshotManager(W, last.arg))
    /\ last' = [last EXCEPT !.op = "newManager"]
    /\ Given(W, ttlGiven)

\* manager.setStore(store)
Attach(ok) ==
    /\ Becomes(SetStore(W, ok))
    /\ last' = Call("setStore", 0, << >>, 0, ok)
    /\ Given(SetStore(W, ok), ttlGiven)

\* Parsing of the save configuration: a configuration text is chosen, a
\* snapshot manager is built from it, and the store is attached to it
InitRules ==
    /\ now = 0
    /\ permanentStore = EmptyMap
    /\ ttlStore = EmptyMap
    /\ ttlTable = [k \in Keys |-> NoEntry]
    /\ timeouts = [k \in Keys |-> NoTimer]
    /\ cleanupIntervalId = TRUE
    /\ lastCleanup = 0
    /\ dirty = 0
    /\ expiredCount = 0
    /\ lastSaveTime = 0
    /\ lastDirtyCount = 0
    /\ smStore = FALSE
    /\ rules = << >>
    /\ timer = NoTimer
    /\ checkTimers = << >>
    /\ files = [p \in Paths |-> NoFile]
    /\ writes = << >>
    /\ ttlGiven = [k \in Keys |-> 0]
    /\ NoConnection
    /\ \E saveConfig \in ConfigTexts :
          last = [Event("config") EXCEPT !.arg = saveConfig]

NextRules ==
    \/ NewManager
    \/ \E ok \in BOOLEAN : last.op # "config" /\ Attach(ok)
    \/ \E ok \in BOOLEAN : last.op # "config" /\ Start(ok)

SpecRules == InitRules /\ [][NextRules]_vars

----------------------------------------------------------------------------
(* RESPParser, the revision of src/protocol/parser.ts that parses out of a *)
(* pooled buffer (buffer, offset, bufferSize).  Bytes are numbers 0..255,  *)
(* offsets count from 0 as in the code                                     *)

\* "\r\n"
CRLF == <<13, 10>>

\* what the memory of a buffer got from Buffer.allocUnsafe or from the pool
\* may hold: it is never cleared, so it holds whatever was written there
\* before.  The contents tried are a period repeated over the whole buffer:
\* zeros, or text lines "a\r\n"
Uninitialised == { <<0>>, <<97, 13, 10>> }

\* a buffer of the given length holding the repeated period
Fresh(pattern, length) ==
    [i \in 1..length |-> pattern[((i - 1) % Len(pattern)) + 1]]

\* BufferPool.acquire(minSize): a buffer of at least minSize bytes and at
\* least the pool's initial size, with whatever content it had
Acquire(minSize, pattern) == Fresh(pattern, Max(minSize, PoolBufferSize))

\* new RESPParser(onCommand)
NewParser(pattern) ==
    [buffer |-> Acquire(PoolBufferSize, pattern), offset |-> 0,
     bufferSize |-> 0]

\* an index of Buffer.subarray, clamped to the buffer
Index(i, length) == IF i < 0 THEN Max(length + i, 0) ELSE Min(i, length)

\* buffer.subarray(start, end)
SubArray(buffer, start, end) ==
    LET a == Index(start, Len(buffer))
        b == Index(end, Len(buffer))
    IN  IF b <= a THEN << >> ELSE SubSeq(buffer, a + 1, b)

\* source.copy(target, targetStart): the target with the bytes written over
Copy(bytes, target, targetStart) ==
    [i \in 1..Len(target) |->
        IF i > targetStart /\ i <= targetStart + Len(bytes)
        THEN bytes[i - targetStart]
        ELSE target[i]]

\* the first index from byteOffset on at which CRLF starts before limit,
\* -1 when there is none
IndexOfCRLF(buffer, byteOffset, limit) ==
    LET hits == {i \in byteOffset..(limit - 2) :
                    SubSeq(buffer, i + 1, i + 2) = CRLF}
    IN  IF hits = {} THEN -1 ELSE CHOOSE i \in hits : \A j \in hits : i <= j

\* toString("utf-8") of bytes: an ASCII byte is its character, any other
\* byte is shown as the replacement character U+FFFD
Utf8(bytes) ==
    [i \in 1..Len(bytes) |-> IF bytes[i] < 128 THEN bytes[i] ELSE 65533]

\* RESPParser._readLine: buffer.indexOf searches the whole buffer, the loop
\* for larger contents searches up to bufferSize
ReadLine(p) ==
    LET Line(crlfIndex) ==
            IF crlfIndex = -1
            THEN [found |-> FALSE, line |-> << >>, offset |-> p.offset]
            ELSE [found |-> TRUE,
                  line |-> SubArray(p.buffer, p.offset, crlfIndex),
                  offset |-> crlfIndex + Len(CRLF)]
    IN  Line(IF p.bufferSize - p.offset < SmallSearch
             THEN IndexOfCRLF(p.buffer, p.offset, Len(p.buffer))
             ELSE IndexOfCRLF(p.buffer, p.offset, p.bufferSize))

\* a RESPValue: null, a string, a Buffer, a number or an array of values
RESPValue(t, s, n, elements) ==
    [t |-> t, s |-> s, n |-> n, elements |-> elements]

\* the outcomes of a reader: a value, "need more data", or an exception;
\* offset is this.offset when the reader returns
Parsed(value, offset) ==
    [r |-> "value", v |-> value, offset |-> offset, err |-> NoError]
Undefined(offset) ==
    [r |-> "undefined", v |-> RESPValue("null", << >>, 0, << >>), offset |-> offset, err |-> NoError]
Throw(kind, text, at) ==
    [r |-> "throw", v |-> RESPValue("null", << >>, 0, << >>), offset |-> at,
     err |-> [kind |-> kind, text |-> text, at |-> at]]

\* the parser with its offset moved
At(p, offset) == [p EXCEPT !.offset = offset]

\* RESPParser._parseSimpleString
ParseSimpleString(p) ==
    LET Read(line) ==
            IF ~line.found
            THEN Undefined(p.offset)
            ELSE Parsed(RESPValue("string", Utf8(line.line), 0, << >>),
                        line.offset)
    IN  Read(ReadLine(p))

\* RESPParser._parseError
ParseError(p) ==
    LET Read(line) ==
            IF ~line.found
            THEN Undefined(p.offset)
            ELSE Parsed(RESPValue("string", Utf8(line.line), 0, << >>),
                        line.offset)
    IN  Read(ReadLine(p))

\* RESPParser._parseInteger
ParseInteger(p) ==
    LET Read(line, numStr, value) ==
            IF ~line.found
            THEN Undefined(p.offset)
            ELSE IF value.nan
            THEN Throw("Invalid integer value", numStr, 0)
            ELSE Parsed(RESPValue("number", << >>, value.val, << >>),
                        line.offset)
        Line(line) == Read(line, Utf8(line.line), ParseInt(Utf8(line.line)))
    IN  Line(ReadLine(p))

\* RESPParser._parseBulkString
ParseBulkString(p) ==
    LET initialOffsetForLength == p.offset
        Read(line, length, totalLength) ==
            IF ~line.found
            THEN Undefined(p.offset)
            ELSE IF length.nan
            THEN Throw("Invalid bulk string length", Utf8(line.line), 0)
            ELSE IF length.val = -1
            THEN Parsed(RESPValue("null", << >>, 0, << >>), line.offset)
            ELSE IF line.offset + totalLength > p.bufferSize
            THEN Undefined(initialOffsetForLength)
            ELSE IF SubArray(p.buffer, line.offset + length.val,
                             line.offset + totalLength) # CRLF
            THEN Throw("Malformed bulk string", << >>, 0)
            ELSE Parsed(RESPValue("buffer",
                                  SubArray(p.buffer, line.offset,
                                           line.offset + length.val),
                                  0, << >>),
                        line.offset + totalLength)
        Length(line, length) == Read(line, length, length.val + Len(CRLF))
        Line(line) == Length(line, ParseInt(Utf8(line.line)))
    IN  Line(ReadLine(p))

RECURSIVE ParseValue(_)

\* RESPParser._parseArray; Elements(i, ...) is the loop from its i-th
\* round on
ParseArray(p) ==
    LET RECURSIVE Elements(_, _, _, _)
        Element(i, count, before, element) ==
            IF element.r # "value"
            THEN element
            ELSE Elements(i + 1, count, element.offset,
                          Append(before, element.v))
        Elements(i, count, offset, array) ==
            IF ~(i < count)
            THEN Parsed(RESPValue("array", << >>, 0, array), offset)
            ELSE Element(i, count, array, ParseValue(At(p, offset)))
        Read(line, count, array) ==
            IF ~line.found
            THEN Undefined(p.offset)
            ELSE IF count.nan
            THEN Throw("Invalid array length", Utf8(line.line), 0)
            ELSE IF count.val = -1
            THEN Parsed(RESPValue("null", << >>, 0, << >>), line.offset)
            ELSE IF array.r = "undefined"
            THEN Undefined(line.offset - (Len(line.line) + Len(CRLF)))
            ELSE array
        Count(line, count) ==
            Read(line, count, Elements(0, count.val, line.offset, << >>))
        Line(line) == Count(line, ParseInt(Utf8(line.line)))
    IN  Line(ReadLine(p))

\* RESPParser._parseValue
ParseValue(p) ==
    LET Back(result) ==
            IF result.r = "undefined"
            THEN [result EXCEPT !.offset = @ - 1]
            ELSE result
        Read(typeByte, q) ==
            CASE typeByte = 43 -> ParseSimpleString(q)
              [] typeByte = 45 -> ParseError(q)
              [] typeByte = 58 -> ParseInteger(q)
              [] typeByte = 36 -> ParseBulkString(q)
              [] typeByte = 42 -> ParseArray(q)
              [] OTHER -> Throw("Invalid RESP type byte", <<typeByte>>,
                                p.offset)
    IN  IF p.offset >= p.bufferSize
        THEN Undefined(p.offset)
        ELSE Back(Read(p.buffer[p.offset + 1], At(p, p.offset + 1)))

\* RESPParser._convertArrayToStrings
ConvertArrayToStrings(value) ==
    LET Strings(strings) ==
            [i \in 1..Len(strings) |->
                IF strings[i].t = "buffer" THEN Utf8(strings[i].s)
                ELSE strings[i].s]
    IN  Strings(SelectSeq(value,
                          LAMBDA item : item.t \in {"buffer", "string"}))

\* the while loop of RESPParser.parse: the parser it leaves, the commands
\* passed to onCommand so far, and the error it caught
RECURSIVE ParseLoop(_, _)
ParseLoop(p, delivered) ==
    LET Pass(command) ==
            IF Len(command) > 0 THEN Append(delivered, command) ELSE delivered
        Round(value, passed) ==
            CASE value.r = "throw" ->
                    [p |-> [p EXCEPT !.bufferSize = 0, !.offset = 0],
                     commands |-> delivered, error |-> value.err]
              [] value.r = "undefined" ->
                    [p |-> At(p, value.offset), commands |-> delivered,
                     error |-> NoError]
              [] OTHER ->
                    IF value.offset = p.offset
                    THEN [p |-> p, commands |-> passed, error |-> NoError]
                    ELSE ParseLoop(At(p, value.offset), passed)
        Value(value) ==
            Round(value,
                  IF value.v.t = "array"
                  THEN Pass(ConvertArrayToStrings(value.v.elements))
                  ELSE delivered)
    IN  IF ~(p.offset < p.bufferSize)
        THEN [p |-> p, commands |-> delivered, error |-> NoError]
        ELSE Value(ParseValue(p))

\* the first part of RESPParser.parse(data): the buffer is replaced by a
\* larger one or compacted, and the data is appended
Fed(p, data, pattern) ==
    LET requiredSize == p.bufferSize + Len(data)
        Kept(kept) ==
            IF Len(p.buffer) < requiredSize
            THEN [buffer |-> Copy(kept,
                                  Acquire(Max(requiredSize * 2, PoolBufferSize),
                                          pattern), 0),
                  offset |-> 0, bufferSize |-> p.bufferSize - p.offset]
            ELSE IF p.offset > 0
            THEN [buffer |-> Copy(kept, p.buffer, 0),
                  offset |-> 0, bufferSize |-> p.bufferSize - p.offset]
            ELSE p
        Appended(room) ==
            [room EXCEPT !.buffer = Copy(data, @, room.bufferSize),
                         !.bufferSize = @ + Len(data)]
    IN  Appended(Kept(SubArray(p.buffer, p.offset, p.bufferSize)))

\* RESPParser.parse(data), were the buffer kept when an error is caught
Parse_KeepsBuffer(p, delivered, data, pattern) ==
    LET Done(appended, done) ==
            [p |-> IF done.error # NoError
                   THEN appended
                   ELSE IF done.p.offset >= done.p.bufferSize
                   THEN [done.p EXCEPT !.bufferSize = 0, !.offset = 0]
                   ELSE done.p,
             commands |-> done.commands,
             error |-> done.error,
             raised |-> FALSE]
        Loop(appended) == Done(appended, ParseLoop(appended, delivered))
    IN  Loop(Fed(p, data, pattern))

\* RESPParser.parse(data): raised tells whether an exception leaves parse()
Parse(p, delivered, data, pattern) ==
    LET Done(done) ==
            [p |-> IF done.p.offset >= done.p.bufferSize
                   THEN [done.p EXCEPT !.bufferSize = 0, !.offset = 0]
                   ELSE done.p,
             commands |-> done.commands,
             error |-> done.error,
             raised |-> FALSE]
    IN  Done(ParseLoop(Fed(p, data, pattern), delivered))

----------------------------------------------------------------------------
(* The connection layer, src/socket/handlers.ts *)

\* the names registered in commandMap: PING, SET, GET, DEL, CONFIG
CommandNames ==
    { <<80, 73, 78, 71>>, <<83, 69, 84>>, <<71, 69, 84>>, <<68, 69, 76>>,
      <<67, 79, 78, 70, 73, 71>> }

\* name.toUpperCase(), for ASCII text
ToUpperCase(name) ==
    [i \in 1..Len(name) |-> IF name[i] \in 97..122 THEN name[i] - 32 ELSE name[i]]

\* formatError(message): the reply "-ERR <message>\r\n", kept as the parts
\* of the message
FormatError(kind, text, at) == [kind |-> kind, text |-> text, at |-> at]

\* handleCommand(commandArgs, socket): the reply it writes to the socket.
\* What a registered handler writes is not looked into
HandleCommand(commandArgs) ==
    IF Len(commandArgs) = 0
    THEN FormatError("protocol error: received empty command array", << >>, 0)
    ELSE IF commandArgs[1] = << >>
    THEN FormatError("protocol error: received empty command name", << >>, 0)
    ELSE IF ToUpperCase(commandArgs[1]) \in CommandNames
    THEN [kind |-> "reply", text |-> ToUpperCase(commandArgs[1]), at |-> 0]
    ELSE FormatError("unknown command", ToUpperCase(commandArgs[1]), 0)

\* the bytes of a sequence of byte strings, one after the other
RECURSIVE Concat(_)
Concat(strings) ==
    IF strings = << >> THEN << >> ELSE Head(strings) \o Concat(Tail(strings))

\* the decimal digits of a natural number
RECURSIVE Digits(_)
Digits(n) ==
    IF n < 10 THEN <<48 + n>> ELSE Digits(n \div 10) \o <<48 + (n % 10)>>

\* a bulk string as a client encodes it: $<length>\r\n<bytes>\r\n
EncodeBulk(bytes) == <<36>> \o Digits(Len(bytes)) \o CRLF \o bytes \o CRLF

\* a command as a client encodes it: *<count>\r\n and a bulk string for
\* every token
EncodeCommand(tokens) ==
    <<42>> \o Digits(Len(tokens)) \o CRLF
        \o Concat([i \in 1..Len(tokens) |-> EncodeBulk(tokens[i])])

\* the command sent: ["a"]
CommandTokens == { << <<97>> >> }
CommandItems == {EncodeCommand(tokens) : tokens \in CommandTokens}

\* well-formed values that are no command: the null array *-1, the null
\* bulk string $-1, the simple string +a
OtherItems ==
    { <<42, 45, 49>> \o CRLF, <<36, 45, 49>> \o CRLF, <<43, 97>> \o CRLF }

\* malformed input: the type byte x, the integer :a, the bulk length $a, the
\* array length *a, and the bulk string $1 a followed by \n\r
MalformedItems ==
    { <<120, 49>> \o CRLF, <<58, 97>> \o CRLF, <<36, 97>> \o CRLF,
      <<42, 97>> \o CRLF, <<36, 49>> \o CRLF \o <<97, 10, 13>> }

\* a bulk string with a negative length that is not -1: $-2
NegativeLengthItems == { <<36, 45, 50>> \o CRLF }

Items ==
    CommandItems \cup OtherItems \cup MalformedItems \cup NegativeLengthItems

\* the inputs of a connection: up to MaxItems items
Streams == UNION {[1..n -> Items] : n \in 1..MaxItems}

\* the bytes the peer sends
Stream == Concat(items)

\* the store and the snapshot manager, which the connection leaves alone
storeVars == <<now, permanentStore, ttlStore, ttlTable, timeouts,
               cleanupIntervalId, lastCleanup, dirty, expiredCount, rules,
               timer, checkTimers, lastSaveTime, lastDirtyCount, smStore,
               files, writes, ttlGiven>>

\* handleSocketOpen(socket): a parser is made for the socket
HandleSocketOpen(pattern) ==
    /\ ~clientParsers
    /\ fed = 0
    /\ parser' = NewParser(pattern)
    /\ clientParsers' = TRUE
    /\ last' = Event("handleSocketOpen")
    /\ UNCHANGED <<items, fed, chunks, commands, socketWrites, parseError>>
    /\ UNCHANGED <<bulkStr, response, bufferPool, parsers>>
    /\ UNCHANGED storeVars

\* handleSocketData(socket, data), data being the next n bytes sent; every
\* command parsed is handled (handleCommand) before parse() returns
HandleSocketData(n, pattern) ==
    /\ clientParsers
    /\ chunks < MaxChunks
    /\ fed + n <= Len(Stream)
    /\ \E result \in {Parse(parser, << >>, SubSeq(Stream, fed + 1, fed + n),
                            pattern)} :
          /\ parser' = result.p
          /\ commands' = commands \o result.commands
          /\ parseError' = result.error
          /\ socketWrites' =
                socketWrites
                    \o [i \in 1..Len(result.commands) |->
                           HandleCommand(result.commands[i])]
                    \o IF result.raised
                       THEN <<FormatError(result.error.kind, result.error.text,
                                          result.error.at)>>
                       ELSE << >>
          /\ clientParsers' = ~result.raised
          /\ last' = [Event("handleSocketData") EXCEPT !.ok = ~result.raised]
    /\ fed' = fed + n
    /\ chunks' = chunks + 1
    /\ UNCHANGED <<items, bulkStr, response, bufferPool, parsers>>
    /\ UNCHANGED storeVars

\* One connection: the peer sends a stream of items, which reaches
\* handleSocketData cut into chunks of any lengths
InitParser ==
    /\ now = 0
    /\ permanentStore = EmptyMap
    /\ ttlStore = EmptyMap
    /\ ttlTable = [k \in Keys |-> NoEntry]
    /\ timeouts = [k \in Keys |-> NoTimer]
    /\ cleanupIntervalId = TRUE
    /\ lastCleanup = 0
    /\ dirty = 0
    /\ expiredCount = 0
    /\ lastSaveTime = 0
    /\ lastDirtyCount = 0
    /\ smStore = TRUE
    /\ rules = << >>
    /\ timer = NoTimer
    /\ checkTimers = << >>
    /\ files = [p \in Paths |-> NoFile]
    /\ writes = << >>
    /\ ttlGiven = [k \in Keys |-> 0]
    /\ last = Event("init")
    /\ items \in Streams
    /\ fed = 0
    /\ chunks = 0
    /\ parser = [buffer |-> << >>, offset |-> 0, bufferSize |-> 0]
    /\ commands = << >>
    /\ socketWrites = << >>
    /\ clientParsers = FALSE
    /\ parseError = NoError
    /\ bulkStr = NoString
    /\ response = << >>
    /\ bufferPool = << >>
    /\ parsers = [i \in ParserIds |-> NoParser]

NextParser ==
    \/ \E pattern \in Uninitialised : HandleSocketOpen(pattern)
    \/ \E n \in 1..(Len(Stream) - fed), pattern \in Uninitialised :
          HandleSocketData(n, pattern)

SpecParser == InitParser /\ [][NextParser]_vars

\* One connection on which malformed input and commands arrive
RecoverStreams ==
    UNION {[1..n -> MalformedItems \cup CommandItems] : n \in 1..MaxItems}

InitRecover ==
    /\ now = 0
    /\ permanentStore = EmptyMap
    /\ ttlStore = EmptyMap
    /\ ttlTable = [k \in Keys |-> NoEntry]
    /\ timeouts = [k \in Keys |-> NoTimer]
    /\ cleanupIntervalId = TRUE
    /\ lastCleanup = 0
    /\ dirty = 0
    /\ expiredCount = 0
    /\ lastSaveTime = 0
    /\ lastDirtyCount = 0
    /\ smStore = TRUE
    /\ rules = << >>
    /\ timer = NoTimer
    /\ checkTimers = << >>
    /\ files = [p \in Paths |-> NoFile]
    /\ writes = << >>
    /\ ttlGiven = [k \in Keys |-> 0]
    /\ last = Event("init")
    /\ items \in RecoverStreams
    /\ fed = 0
    /\ chunks = 0
    /\ parser = [buffer |-> << >>, offset |-> 0, bufferSize |-> 0]
    /\ commands = << >>
    /\ socketWrites = << >>
    /\ clientParsers = FALSE
    /\ parseError = NoError
    /\ bulkStr = NoString
    /\ response = << >>
    /\ bufferPool = << >>
    /\ parsers = [i \in ParserIds |-> NoParser]

NextRecover ==
    \/ \E pattern \in Uninitialised : HandleSocketOpen(pattern)
    \/ \E n \in 1..(Len(Stream) - fed), pattern \in Uninitialised :
          HandleSocketData(n, pattern)

SpecRecover == InitRecover /\ [][NextRecover]_vars

\* One connection on which one array arrives whole: its elements are bulk
\* strings, simple strings, integers, null bulk strings, arrays and errors
MaxElements == 3

\* the elements tried: $1 a, $0, +b, :1, $-1, *1 $1 c, -e
Elements ==
    { [kind |-> "bulk", bytes |-> EncodeBulk(<<97>>), token |-> <<97>>],
      [kind |-> "bulk", bytes |-> EncodeBulk(<< >>), token |-> << >>],
      [kind |-> "simple", bytes |-> <<43, 98>> \o CRLF, token |-> <<98>>],
      [kind |-> "integer", bytes |-> <<58, 49>> \o CRLF, token |-> << >>],
      [kind |-> "null", bytes |-> <<36, 45, 49>> \o CRLF, token |-> << >>],
      [kind |-> "array", bytes |-> EncodeCommand(<< <<99>> >>),
       token |-> << >>],
      [kind |-> "error", bytes |-> <<45, 101>> \o CRLF, token |-> <<101>>] }

ElementLists == UNION {[1..n -> Elements] : n \in 0..MaxElements}

\* an array as a client encodes it: *<count>\r\n and its elements
EncodeArray(elements) ==
    <<42>> \o Digits(Len(elements)) \o CRLF
        \o Concat([i \in 1..Len(elements) |-> elements[i].bytes])

InitArrays ==
    /\ now = 0
    /\ permanentStore = EmptyMap
    /\ ttlStore = EmptyMap
    /\ ttlTable = [k \in Keys |-> NoEntry]
    /\ timeouts = [k \in Keys |-> NoTimer]
    /\ cleanupIntervalId = TRUE
    /\ lastCleanup = 0
    /\ dirty = 0
    /\ expiredCount = 0
    /\ lastSaveTime = 0
    /\ lastDirtyCount = 0
    /\ smStore = TRUE
    /\ rules = << >>
    /\ timer = NoTimer
    /\ checkTimers = << >>
    /\ files = [p \in Paths |-> NoFile]
    /\ writes = << >>
    /\ ttlGiven = [k \in Keys |-> 0]
    /\ last = Event("init")
    /\ items \in {<<EncodeArray(elements)>> : elements \in ElementLists}
    /\ fed = 0
    /\ chunks = 0
    /\ parser = [buffer |-> << >>, offset |-> 0, bufferSize |-> 0]
    /\ commands = << >>
    /\ socketWrites = << >>
    /\ clientParsers = FALSE
    /\ parseError = NoError
    /\ bulkStr = NoString
    /\ response = << >>
    /\ bufferPool = << >>
    /\ parsers = [i \in ParserIds |-> NoParser]

NextArrays ==
    \/ \E pattern \in Uninitialised : HandleSocketOpen(pattern)
    \/ \E pattern \in Uninitialised : HandleSocketData(Len(Stream), pattern)

SpecArrays == InitArrays /\ [][NextArrays]_vars

----------------------------------------------------------------------------
(* The buffer pool of the parser module and the parsers that share it. *)
(* A buffer is known by its identity and its length; the values fed   *)
(* either end with the chunk or are incomplete from its start         *)

\* maxSize of the BufferPool
PoolMaxSize == 10

\* Buffer.allocUnsafe(size): a buffer that neither the pool nor a parser
\* refers to
AllocUnsafe(pool, ps, size) ==
    LET used == {pool[i].id : i \in 1..Len(pool)}
                    \cup {ps[i].buffer.id : i \in ParserIds}
    IN  [id |-> CHOOSE id \in 1..(Cardinality(used) + 1) :
                    /\ id \notin used
                    /\ \A other \in 1..(id - 1) : other \in used,
         length |-> size]

\* BufferPool.acquire(minSize): the first buffer of the pool that is long
\* enough is taken out of the pool; failing that a new buffer is made
BufferPoolAcquire(pool, ps, minSize) ==
    LET fits == {i \in 1..Len(pool) : pool[i].length >= minSize}
        First(i) ==
            [buffer |-> pool[i],
             pool |-> SubSeq(pool, 1, i - 1) \o SubSeq(pool, i + 1, Len(pool))]
    IN  IF fits = {}
        THEN [buffer |-> AllocUnsafe(pool, ps, Max(minSize, PoolBufferSize)),
              pool |-> pool]
        ELSE First(CHOOSE i \in fits : \A j \in fits : i <= j)

\* BufferPool.release(buffer)
BufferPoolRelease(pool, buffer) ==
    IF Len(pool) < PoolMaxSize THEN Append(pool, buffer) ELSE pool

\* what the connection and the store hold, which the parsers leave alone
connectionVars == <<items, fed, chunks, parser, commands, socketWrites,
                    clientParsers, parseError, bulkStr, response>>

\* new RESPParser(onCommand): the buffer is acquired from the pool
NewRESPParser(i) ==
    /\ ~parsers[i].made
    /\ \E a \in {BufferPoolAcquire(bufferPool, parsers, PoolBufferSize)} :
          /\ parsers' = [parsers EXCEPT ![i] =
                            [made |-> TRUE, live |-> TRUE, disposals |-> 0,
                             buffer |-> a.buffer, bufferSize |-> 0]]
          /\ bufferPool' = a.pool
    /\ last' = [Event("newParser") EXCEPT !.key = i]
    /\ UNCHANGED connectionVars
    /\ UNCHANGED storeVars

\* parser.parse(data) with a chunk of ChunkLen bytes: when the buffer is
\* too short a longer one is acquired and the old one released; the values
\* read end with the chunk (complete) or nothing of it can be read yet
ParserParse(i, complete) ==
    /\ parsers[i].made
    /\ parsers[i].bufferSize + ChunkLen <= MaxBuffered
    /\ \E requiredSize \in {parsers[i].bufferSize + ChunkLen} :
          IF parsers[i].buffer.length < requiredSize
          THEN \E a \in {BufferPoolAcquire(bufferPool, parsers,
                                           Max(requiredSize * 2,
                                               PoolBufferSize))} :
                  /\ parsers' = [parsers EXCEPT ![i].live = TRUE,
                                                ![i].buffer = a.buffer,
                                                ![i].bufferSize =
                                                    IF complete THEN 0
                                                    ELSE requiredSize]
                  /\ bufferPool' = BufferPoolRelease(a.pool,
                                                     parsers[i].buffer)
          ELSE /\ parsers' = [parsers EXCEPT ![i].live = TRUE,
                                             ![i].bufferSize =
                                                 IF complete THEN 0
                                                 ELSE requiredSize]
               /\ bufferPool' = bufferPool
    /\ last' = [Event("parse") EXCEPT !.key = i, !.ok = complete]
    /\ UNCHANGED connectionVars
    /\ UNCHANGED storeVars

\* parser.dispose(): the buffer is released, and the parser keeps it
ParserDispose(i) ==
    /\ parsers[i].made
    /\ parsers[i].disposals < MaxDisposals
    /\ parsers' = [parsers EXCEPT ![i].live = FALSE,
                                  ![i].disposals = @ + 1]
    /\ bufferPool' = BufferPoolRelease(bufferPool, parsers[i].buffer)
    /\ last' = [Event("disposeParser") EXCEPT !.key = i]
    /\ UNCHANGED connectionVars
    /\ UNCHANGED storeVars

\* Several parsers are made, fed and disposed of, in any order
NextPool ==
    \/ \E i \in ParserIds : NewRESPParser(i)
    \/ \E i \in ParserIds, complete \in BOOLEAN : ParserParse(i, complete)
    \/ \E i \in ParserIds : ParserDispose(i)

SpecPool == InitStore /\ [][NextPool]_vars

----------------------------------------------------------------------------
(* Bulk-string replies: formatBulkString (src/protocol/resp) and the tiered *)
(* buffer pool it writes into (src/utils/buffer-pool.ts)                   *)

\* the sizes of the pool's buffers, in bytes
BUFFER_TIERS == <<64, 128, 256, 512, 1024, 2048>>

\* the tier used when no tier is large enough: the last one
DEFAULT_TIER == BUFFER_TIERS[Len(BUFFER_TIERS)]

\* EnhancedBufferPool.findTier(size): the first tier that holds size bytes,
\* the default tier when there is none
FindTier(size) ==
    LET fits == {i \in 1..Len(BUFFER_TIERS) : BUFFER_TIERS[i] >= size}
    IN  IF fits = {}
        THEN DEFAULT_TIER
        ELSE BUFFER_TIERS[CHOOSE i \in fits : \A j \in fits : i <= j]

\* EnhancedBufferPool.acquire(minSize): a buffer of the tier found for
\* minSize, popped from the tier's pool or got from Buffer.allocUnsafe; in
\* both cases it holds whatever was written there before
PoolAcquire(minSize, pattern) == Fresh(pattern, FindTier(minSize))

\* "$-1\r\n"
NULL_RESPONSE == <<36, 45, 49, 13, 10>>

\* formatBulkString(str): the header, the data and the final CRLF are
\* written into the acquired buffer; a write past the end of a buffer is
\* dropped (an indexed store) or cut short (Buffer.copy), and subarray
\* clamps its end to the buffer
FormatBulkString(s, pattern) ==
    IF s.null THEN NULL_RESPONSE
    ELSE LET buffer == s.bytes
             lengthStr == Digits(Len(buffer))
             totalSize == 1 + Len(lengthStr) + 2 + Len(buffer) + 2
             header == <<36>> \o lengthStr \o CRLF
             Write(acquired) ==
                 Copy(CRLF,
                      Copy(buffer, Copy(header, acquired, 0), Len(header)),
                      Len(header) + Len(buffer))
         IN  SubArray(Write(PoolAcquire(totalSize, pattern)), 0, totalSize)

\* the longest value formatted
MaxValueLen == 2060
\* the lengths formatted are the short ones and those this close to a tier
NearTier == 12

\* the lengths of the values formatted
ValueLengths ==
    {n \in 0..MaxValueLen :
        \/ n <= NearTier
        \/ \E i \in 1..Len(BUFFER_TIERS) :
              /\ n >= BUFFER_TIERS[i] - NearTier
              /\ n <= BUFFER_TIERS[i] + NearTier}

\* the contents of the values formatted: a period repeated over the value
ValuePeriods == { <<97>>, <<120, 13, 10, 255>> }

\* the values handed to formatBulkString: null, and values of the lengths
\* tried
BulkStrings ==
    {NoString}
        \cup {[null |-> FALSE, bytes |-> Fresh(period, n)] :
                 period \in ValuePeriods, n \in ValueLengths}

\* a call of formatBulkString(str)
FormatBulk(pattern) ==
    /\ last.op = "init"
    /\ response' = FormatBulkString(bulkStr, pattern)
    /\ last' = Event("formatBulkString")
    /\ UNCHANGED <<items, fed, chunks, parser, commands, socketWrites,
                   clientParsers, parseError, bulkStr, bufferPool, parsers>>
    /\ UNCHANGED storeVars

\* One value is formatted as a reply
InitReply ==
    /\ now = 0
    /\ permanentStore = EmptyMap
    /\ ttlStore = EmptyMap
    /\ ttlTable = [k \in Keys |-> NoEntry]
    /\ timeouts = [k \in Keys |-> NoTimer]
    /\ cleanupIntervalId = TRUE
    /\ lastCleanup = 0
    /\ dirty = 0
    /\ expiredCount = 0
    /\ lastSaveTime = 0
    /\ lastDirtyCount = 0
    /\ smStore = TRUE
    /\ rules = << >>
    /\ timer = NoTimer
    /\ checkTimers = << >>
    /\ files = [p \in Paths |-> NoFile]
    /\ writes = << >>
    /\ ttlGiven = [k \in Keys |-> 0]
    /\ last = Event("init")
    /\ items = << >>
    /\ fed = 0
    /\ chunks = 0
    /\ parser = [buffer |-> << >>, offset |-> 0, bufferSize |-> 0]
    /\ commands = << >>
    /\ socketWrites = << >>
    /\ clientParsers = FALSE
    /\ parseError = NoError
    /\ bulkStr \in BulkStrings
    /\ response = << >>
    /\ bufferPool = << >>
    /\ parsers = [i \in ParserIds |-> NoParser]

NextReply == \E pattern \in Uninitialised : FormatBulk(pattern)

SpecReply == InitReply /\ [][NextReply]_vars

----------------------------------------------------------------------------
(* Properties of the store, checked under SpecStore *)

\* the key's expiry instant has been reached
Reached(key) == ttlTable[key] # NoEntry /\ now >= ttlTable[key]

\* the key is stored in neither region and has no expiry record
Gone(w, key) ==
    /\ w.permanentStore[key] = NoValue
    /\ w.ttlStore[key] = NoValue
    /\ w.ttlTable[key] = NoEntry

\* C1: in every reachable state, for a key whose expiry instant has been
\* reached (now >= expiresAt), get(key) returns absent and removes the key,
\* whether or not the key's timer or a sweep pass has run.
C1_ExpiredNeverRead ==
    \A key \in Keys :
        Reached(key) =>
            LET r == StoreGet(W, key)
            IN  r.ret = NoValue /\ Gone(r.w, key)

\* C1 witness: a get was made on a stored key whose expiry instant had been
\* reached while its timer was still pending, and it returned absent
C1_Witness ==
    /\ last.op = "get"
    /\ last.preExpired
    /\ last.preRegion = "vol"
    /\ last.ret = NoValue
    /\ Gone(W, last.key)

\* the ttl argument of the set recorded in last, << >> when none was given
SetTtlArg == SubSeq(last.arg, 2, Len(last.arg))

\* C2 as claimed: after set(key, value[, ttl]), for every ttl argument,
\* get(key) returns the value just written.
C2_Claim ==
    last.op = "set" => StoreGet(W, last.key).ret = last.arg[1]

\* C2 amended: after set(key, value) or set(key, value, ttl) with ttl > 0,
\* get(key) returns the value just written, whatever the key's previous
\* region, value or expiry was.
C2_SetThenGet ==
    (last.op = "set" /\ (SetTtlArg = << >> \/ SetTtlArg[1] > 0))
        => StoreGet(W, last.key).ret = last.arg[1]

\* C2 witness: a key stored in the volatile region was overwritten by a set
\* without TTL
C2_Witness ==
    /\ last.op = "set"
    /\ SetTtlArg = << >>
    /\ last.preRegion = "vol"
    /\ StoreGet(W, last.key).ret = last.arg[1]

\* the key's one-shot timer is pending
TimerPending(key) == timeouts[key].set /\ timeouts[key].pending

\* C3 as claimed: after set(key, value) the key is in the persistent region
\* with no expiry record and no pending timer; after set(key, value, ttl),
\* for every ttl, it is in the volatile region with an expiry record.
C3_Claim ==
    last.op = "set" =>
        IF SetTtlArg = << >>
        THEN /\ Region(W, last.key) = "perm"
             /\ ttlStore[last.key] = NoValue
             /\ ttlTable[last.key] = NoEntry
             /\ ~TimerPending(last.key)
        ELSE /\ Region(W, last.key) = "vol"
             /\ ttlTable[last.key] # NoEntry

\* C3 amended: after set(key, value) the key is in the persistent region
\* with no expiry record and no pending timer; after set(key, value, ttl)
\* with ttl > 0 it is in the volatile region with an expiry record set ttl
\* seconds ahead; with ttl <= 0 the key is removed at once.
C3_SetRegion ==
    last.op = "set" =>
        IF SetTtlArg = << >>
        THEN /\ Region(W, last.key) = "perm"
             /\ ttlStore[last.key] = NoValue
             /\ ttlTable[last.key] = NoEntry
             /\ ~TimerPending(last.key)
        ELSE IF SetTtlArg[1] > 0
        THEN /\ Region(W, last.key) = "vol"
             /\ ttlTable[last.key] = now + SetTtlArg[1] * MsPerSecond
        ELSE Gone(W, last.key)

\* C3 witness: a key that had an expiry was written again without TTL
C3_Witness ==
    /\ last.op = "set"
    /\ SetTtlArg = << >>
    /\ last.preRegion = "vol"
    /\ ttlGiven[last.key] = 0
    /\ Region(W, last.key) = "perm"

\* C4 as claimed: expire / pexpire with a positive argument on a key of the
\* persistent region returns true and leaves the key in the volatile region
\* with an expiry record; on an absent key it returns false and changes
\* neither the regions, the expiry records, the timers nor the dirty counter.
C4_Claim ==
    [][\A key \in Keys :
          (/\ last'.op \in {"expire", "pexpire"}
           /\ last'.key = key
           /\ last'.arg[1] > 0)
          => /\ Region(W, key) = "perm" =>
                   /\ last'.ok
                   /\ permanentStore'[key] = NoValue
                   /\ ttlStore'[key] # NoValue
                   /\ ttlTable'[key] # NoEntry
             /\ Region(W, key) = "none" =>
                   /\ ~last'.ok
                   /\ UNCHANGED <<permanentStore, ttlStore, ttlTable,
                                  timeouts, dirty>>]_vars

\* C5 as claimed: for a key stored in either region, right after
\* expire(key, 0) or pexpire(key, n) with n < 0 the key is absent:
\* get(key) returns absent and ttl(key) returns -2.
C5_Claim ==
    (/\ \/ last.op = "expire" /\ last.arg[1] = 0
        \/ last.op = "pexpire" /\ last.arg[1] < 0
     /\ last.preRegion # "none")
    => /\ StoreGet(W, last.key).ret = NoValue
       /\ StoreTtl(W, last.key).ret = TTL_ABSENT

\* the key is absent for a caller: get(key) returns nothing
Absent(key) == StoreGet(W, key).ret = NoValue

\* what ttl / pttl return for absent keys and keys without expiry
TtlCodes(key, r) ==
    /\ r = TTL_ABSENT <=> Absent(key)
    /\ r = TTL_NONE <=> (~Absent(key) /\ ttlTable[key] = NoEntry)
    /\ r \notin {TTL_ABSENT, TTL_NONE} => r > 0

\* C6 as claimed: in every reachable state ttl(key) and pttl(key) are -2
\* exactly when the key is absent, -1 exactly when it exists without expiry,
\* and otherwise a positive time not larger than the TTL most recently given
\* for the key.
C6_Claim ==
    \A key \in Keys :
        LET s == StoreTtl(W, key).ret
            ms == StorePttl(W, key).ret
        IN  /\ TtlCodes(key, s)
            /\ TtlCodes(key, ms)
            /\ s > 0 => s * MsPerSecond <= ttlGiven[key]
            /\ ms > 0 => ms <= ttlGiven[key]

\* C6 amended: as claimed, except that ttl(key) reports the remaining time
\* rounded up to whole seconds, so it is not larger than the TTL most
\* recently given rounded up to whole seconds (pexpire(key, 1500) is
\* followed by ttl(key) = 2); pttl(key) is not larger than that TTL.
C6_TtlResults ==
    \A key \in Keys :
        LET s == StoreTtl(W, key).ret
            ms == StorePttl(W, key).ret
        IN  /\ TtlCodes(key, s)
            /\ TtlCodes(key, ms)
            /\ s > 0 => (s - 1) * MsPerSecond < ttlGiven[key]
            /\ ms > 0 => ms <= ttlGiven[key]

\* C6 witness: ttl was called on a key with time remaining and returned a
\* number of seconds
C6_Witness ==
    /\ last.op = "ttl"
    /\ last.ret > 0
    /\ ttlGiven[last.key] > 0
    /\ now > 0

\* C7 as claimed: every set, every delete of a stored key, every expire,
\* pexpire or persist that returns true raises the dirty counter by exactly
\* 1, for every TTL argument; get, ttl and pttl on a key that is absent or
\* not expired leave it unchanged.
C7_Claim ==
    /\ last.op = "set" => dirty = last.preDirty + 1
    /\ (last.op \in {"delete", "expire", "pexpire", "persist"} /\ last.ok)
          => dirty = last.preDirty + 1
    /\ (last.op \in {"get", "ttl", "pttl"} /\ ~last.preExpired)
          => dirty = last.preDirty

----------------------------------------------------------------------------
(* Properties of the snapshot manager, checked under SpecSnap *)

\* the latest handler wrote a snapshot successfully
Saved == \E i \in DOMAIN writes : writes[i].ok

\* C8 as claimed: the dirty counter is 0 right after every successful
\* snapshot save, scheduled or explicit; a handler whose save fails leaves
\* it unchanged; a handler that saves nothing never lowers it (a load,
\* which replaces the whole key space, is not counted).
C8_Claim ==
    /\ [](Saved => dirty = 0)
    /\ [][(writes' # << >> /\ ~Saved' /\ last'.op # "loadSnapshot")
            => dirty' = dirty]_vars
    /\ [][(~Saved' /\ last'.op # "loadSnapshot") => dirty' >= dirty]_vars

\* some rule has its change threshold and its seconds met, for a dirty count
RuleSatisfied(d) ==
    \E i \in 1..Len(rules) :
        /\ d >= rules[i].changes
        /\ now - lastSaveTime >= rules[i].seconds * MsPerSecond

\* the latest handler issued the write of a scheduled save
ScheduledSave == \E i \in DOMAIN writes : writes[i].by = "save"

\* C9: a snapshot check (the check timer firing, start(), checkNow() while
\* a timer is pending, the check made by setStore inside store.saveSnapshot)
\* issues a scheduled save if and only if some configured rule has
\* dirty >= rule.changes and elapsed >= rule.seconds at the time of the
\* check; the save is written exactly when the file system accepts it.
C9_SaveIffRuleMet ==
    [][/\ (\/ last'.op \in {"checkTimer", "start"}
           \/ last'.op = "checkNow" /\ timer.set)
          => /\ ScheduledSave' <=> RuleSatisfied(dirty)
             /\ ScheduledSave' => (writes'[1].ok <=> last'.ok)
       /\ last'.op = "saveSnapshot"
          => (ScheduledSave' <=> RuleSatisfied(CleanupExpired(W).dirty))
       /\ (\/ last'.op \notin {"checkTimer", "start", "checkNow",
                              "saveSnapshot"}
           \/ last'.op = "checkNow" /\ ~timer.set)
          => ~ScheduledSave']_vars

\* C9 witness: the check timer fired with a rule satisfied and the snapshot
\* was written
C9_Witness ==
    /\ last.op = "checkTimer"
    /\ ScheduledSave
    /\ Saved
    /\ files[DefaultPath].exists

\* C10 as claimed: while the manager is started (a check is pending), once
\* a rule has its change threshold met and its seconds elapsed, the save is
\* prompt: the pending check is due.
C10_Claim ==
    timer.set =>
        \A i \in 1..Len(rules) :
            (/\ dirty >= rules[i].changes
             /\ now - lastSaveTime >= rules[i].seconds * MsPerSecond)
            => timer.due <= now

\* the latest handler was a snapshot check whose scheduled save was refused
\* by the file system
FailedScheduledSave ==
    /\ last.op \in {"checkTimer", "start", "checkNow"}
    /\ \E i \in DOMAIN writes : writes[i].by = "save" /\ ~writes[i].ok

\* C11 as claimed: after a scheduled save fails, the dirty counter is
\* unchanged and a further check is pending, so that the save is retried
\* without a new write or a restart.
C11_Claim ==
    FailedScheduledSave =>
        /\ dirty = last.preDirty
        /\ timer.set
        /\ timer.pending

----------------------------------------------------------------------------
(* Properties of saving and loading, checked under SpecLoad *)

\* the store after store.saveSnapshot(filePath) succeeded
AfterSave(filePath) == StoreSaveSnapshot(W, filePath, TRUE, TRUE).w

\* C12 as claimed: in every reachable state, saving the store to a path
\* and then loading that same path yields a store holding exactly the
\* saved keys with the saved values, for every path.
C12_Claim ==
    \A filePath \in Paths :
        GetStore(StoreLoadSnapshot(AfterSave(filePath), filePath, TRUE))
            = GetStore(AfterSave(filePath))

\* the latest handler loaded a snapshot
Loaded == last.op \in {"loadSnapshot", "loadInitialSnapshot"}

\* C13: right after a snapshot is loaded (store.loadSnapshot or
\* snapshotManager.loadInitialSnapshot), the volatile region is empty, no
\* key has an expiry record or a timer, ttl(key) is -1 for every loaded
\* key, and the dirty counter is 0, whatever the store held before.
C13_LoadedPermanent ==
    Loaded =>
        /\ dirty = 0
        /\ \A key \in Keys :
              /\ ttlStore[key] = NoValue
              /\ ttlTable[key] = NoEntry
              /\ ~timeouts[key].set
              /\ permanentStore[key] # NoValue
                    => StoreTtl(W, key).ret = TTL_NONE

\* C13 witness: a snapshot holding a key was loaded by
\* loadInitialSnapshot into a store that had been written to
C13_Witness ==
    /\ last.op = "loadInitialSnapshot"
    /\ last.preDirty > 0
    /\ \E key \in Keys : permanentStore[key] \in Values
    /\ dirty = 0

\* the file is no snapshot: it is missing, empty, rejected by JSON.parse,
\* or one of its strings has a character outside the base64 alphabet
Malformed(file) ==
    \/ ~file.exists
    \/ file.kind # "json"
    \/ \E k \in Keys : \E i \in DOMAIN file.data[k] :
          file.data[k][i] \notin 0..64

\* C14 as claimed: a load always completes, and when the snapshot file is
\* missing, empty or malformed (invalid JSON or base64) the store is empty
\* afterwards.  (No save rule is configured, so the file read by the load
\* is the one still at the manager's path.)
C14_Claim ==
    (Loaded /\ Malformed(files[DefaultPath])) => GetStore(W) = EmptyMap

----------------------------------------------------------------------------
(* Properties of the save configuration, checked under SpecRules *)

\* the token is a positive integer: digits only, and not zero
IsPositiveInteger(token) ==
    /\ token # << >>
    /\ \A i \in DOMAIN token : IsDigit(token[i])
    /\ DigitsValue(token) > 0

\* the rule list the configuration text stands for: empty when the number
\* of tokens is odd or a token is no positive integer, else one rule per
\* pair, in order
ExpectedRules(saveConfig) ==
    LET parts == Split(Trim(saveConfig))
    IN  IF \/ Len(parts) % 2 # 0
           \/ \E i \in DOMAIN parts : ~IsPositiveInteger(parts[i])
        THEN << >>
        ELSE [i \in 1..(Len(parts) \div 2) |->
                [seconds |-> DigitsValue(parts[2 * i - 1]),
                 changes |-> DigitsValue(parts[2 * i])]]

\* C15 as claimed: a manager built from a configuration text has an empty
\* rule list when the text has an odd number of tokens or a token that is
\* no positive integer, and else exactly one rule per pair, in order; with
\* an empty rule list no check is ever scheduled.
C15_Claim ==
    /\ last.op = "newManager" => rules = ExpectedRules(last.arg)
    /\ rules = << >> => ~timer.set

----------------------------------------------------------------------------
(* Further properties of the snapshot manager, checked under SpecSnap *)

\* C16 as claimed: no public save operation lets a write failure escape
\* as an exception: an explicit store.saveSnapshot(filePath) returns
\* normally whether or not its write succeeds.
C16_Claim ==
    last.op = "saveSnapshot" => last.ok

\* C17 as claimed: after stop(), as long as start() is not called, no
\* operation (writes, explicit store save, load) arms the check timer or
\* writes a scheduled save.
C17_Claim ==
    [][(last.op = "stop" /\ last'.op # "start")
          => (~timer'.set /\ ~ScheduledSave')]_vars

----------------------------------------------------------------------------
(* Properties of the request parser, checked under SpecParser *)

\* every item sent is an encoded command
WellFormed == \A i \in 1..Len(items) : items[i] \in CommandItems

\* the commands a new parser passes on when it is fed the bytes in one piece
OnePiece(bytes, pattern) ==
    Parse(NewParser(pattern), << >>, bytes, pattern).commands

\* C18: when a stream of well-formed encoded commands has been fed in
\* chunks, whatever the cuts, the commands passed to the callback are those
\* passed when the stream is fed in one piece.
C18_Claim ==
    (clientParsers /\ WellFormed /\ fed = Len(Stream))
        => \A pattern \in Uninitialised : commands = OnePiece(Stream, pattern)

\* every item sent is a well-formed value: a command, a null array, a null
\* bulk string or a simple string
Valid == \A i \in 1..Len(items) : items[i] \in CommandItems \cup OtherItems

\* the number of bytes sent when the i-th item has been sent
ItemEnd(i) == Len(Concat(SubSeq(items, 1, i)))

\* the tokens of the commands among the first n items, in the order sent
RECURSIVE CommandsAmong(_)
CommandsAmong(n) ==
    IF n = 0
    THEN << >>
    ELSE IF items[n] \in CommandItems
    THEN Append(CommandsAmong(n - 1),
                CHOOSE tokens \in CommandTokens :
                    EncodeCommand(tokens) = items[n])
    ELSE CommandsAmong(n - 1)

\* the number of items received completely
Received == Cardinality({i \in 1..Len(items) : ItemEnd(i) <= fed})

\* C19: while well-formed values are received, the commands passed to the
\* callback are, in the order sent, the commands received completely; null
\* arrays, null bulk strings and simple strings are passed over and do not
\* stop the commands after them.
C19_Claim ==
    (clientParsers /\ Valid) => commands = CommandsAmong(Received)

\* the error stated for each malformed item
StatedError(item) ==
    CASE item[1] = 120 -> [kind |-> "Invalid RESP type byte",
                           text |-> <<120>>, at |-> 0]
      [] item[1] = 58 -> [kind |-> "Invalid integer value",
                          text |-> <<97>>, at |-> 0]
      [] item[1] = 42 -> [kind |-> "Invalid array length",
                          text |-> <<97>>, at |-> 0]
      [] item[1] = 36 /\ item[2] = 97 ->
            [kind |-> "Invalid bulk string length", text |-> <<97>>, at |-> 0]
      [] OTHER -> [kind |-> "Malformed bulk string", text |-> << >>, at |-> 0]

\* the first chunk received holds a malformed item at its start
MalformedFed ==
    /\ chunks = 1
    /\ items[1] \in MalformedItems
    /\ fed >= Len(items[1])

\* C20: when malformed input is fed, parse() raises the stated error to
\* handleSocketData, which writes one -ERR reply with that message to the
\* socket.
C20_Claim ==
    MalformedFed
        => /\ ~last.ok
           /\ socketWrites = <<StatedError(items[1])>>

\* the first chunk received starts with a bulk string of length -2
NegativeLengthFed ==
    /\ chunks = 1
    /\ items[1] \in NegativeLengthItems
    /\ fed >= Len(items[1])

\* C21: a bulk string whose declared length is -2 is rejected with the
\* error "Invalid bulk string length: -2".
C21_Claim ==
    NegativeLengthFed
        => parseError = [kind |-> "Invalid bulk string length",
                         text |-> <<45, 50>>, at |-> 0]

----------------------------------------------------------------------------
(* Recovery after a protocol error, checked under SpecRecover *)

\* the tokens of an encoded command
TokensOf(item) ==
    CHOOSE tokens \in CommandTokens : EncodeCommand(tokens) = item

\* the next read holds exactly the i-th item, a command
ReadsCommand(i) ==
    /\ items[i] \in CommandItems
    /\ fed = ItemEnd(i - 1)
    /\ fed' = ItemEnd(i)

\* C22: when parse() has caught a protocol error, nothing of the input
\* read so far is kept in the buffer, and a command that arrives whole in
\* a later read is passed to the callback, handled and answered with one
\* reply.
C22_Recovery ==
    /\ [](parseError # NoError
            => (parser.bufferSize = 0 /\ parser.offset = 0 /\ clientParsers))
    /\ [][\A i \in 1..Len(items) :
            (parseError # NoError /\ ReadsCommand(i))
                => /\ commands' = Append(commands, TokensOf(items[i]))
                   /\ socketWrites'
                         = Append(socketWrites, HandleCommand(TokensOf(items[i])))
                   /\ parseError' = NoError]_vars

\* a command has been parsed and answered in the read after the one that
\* brought malformed input
C22_Witness ==
    /\ Len(items) = 2
    /\ items[1] \in MalformedItems
    /\ items[2] \in CommandItems
    /\ chunks = 2
    /\ fed = Len(Stream)
    /\ commands = <<TokensOf(items[2])>>
    /\ socketWrites = <<HandleCommand(TokensOf(items[2]))>>

----------------------------------------------------------------------------
(* Properties of the bulk-string reply, checked under SpecReply *)

\* the size formatBulkString asks the pool for
TotalSize(s) == 1 + Len(Digits(Len(s.bytes))) + 2 + Len(s.bytes) + 2

\* C23: for every value of every length, the reply formatBulkString returns
\* is exactly $<length>\r\n<bytes>\r\n with the whole value unmodified, and
\* the buffer acquired from the pool for it is at least as large as the
\* size requested.
C23_Claim ==
    (last.op = "formatBulkString" /\ ~bulkStr.null)
        => /\ response = EncodeBulk(bulkStr.bytes)
           /\ \A pattern \in Uninitialised :
                 Len(PoolAcquire(TotalSize(bulkStr), pattern))
                     >= TotalSize(bulkStr)

----------------------------------------------------------------------------
(* Properties of expiry and deletion, checked under SpecStore *)

\* a timer of the TTL manager is pending: the timer of a key, or the sweep
AnyTimerPending ==
    \/ cleanupIntervalId
    \/ \E k \in Keys : TimerPending(k)

\* C24: after dispose() no timer of a key and no sweep timer is pending, so
\* no deletion callback fires afterwards (a timer callback runs only while
\* a timer is pending), and a second dispose() changes nothing.
C24_Dispose ==
    /\ [](last.op = "dispose" => ~AnyTimerPending)
    /\ [][(~AnyTimerPending => last'.op \notin {"keyTimer", "sweep"})
          /\ ((last.op = "dispose" /\ last'.op = "dispose")
                 => UNCHANGED <<permanentStore, ttlStore, ttlTable, timeouts,
                                cleanupIntervalId, dirty, expiredCount>>)]_vars

\* dispose() has run while a key's timer and the sweep timer were pending
C24_Witness ==
    /\ last.op = "dispose"
    /\ last.arg[1] > 0
    /\ last.ok

\* C25: every key is in at most one of the two regions, the persistent one
\* (permanentStore) and the volatile one (ttlStore).  Checked under
\* SpecRegions.
C25_OneRegion ==
    \A k \in Keys : ~(permanentStore[k] # NoValue /\ ttlStore[k] # NoValue)

\* pexpire has moved a key of the persistent region to the volatile one
C25_Witness ==
    /\ last.op = "pexpire"
    /\ last.ok
    /\ last.preRegion = "perm"
    /\ permanentStore[last.key] = NoValue
    /\ ttlStore[last.key] # NoValue

\* C26: a key has an expiry record in the TTL manager if and only if it is
\* in the volatile region of the store; in particular after persist(key)
\* has returned true the key is not in the volatile region.
C26_Claim ==
    /\ \A k \in Keys : ttlTable[k] # NoEntry <=> ttlStore[k] # NoValue
    /\ (last.op = "persist" /\ last.ok) => ttlStore[last.key] = NoValue

\* the key has been written again or persisted by the latest call
Renewed(k) ==
    /\ last.op \in {"set", "expire", "pexpire", "persist"}
    /\ last.key = k

\* the latest instant the clock of the model reaches
LastNow == (MaxNow \div TickMs) * TickMs

\* C27: every key with an expiry record has exactly one pending one-shot
\* timer, set for the instant of the record; when the timer of such a key
\* fires the key is removed through the store's deletion path (the value
\* and the record are removed, dirty is incremented by one); and with
\* fair timer dispatch every key with an expiry record that is not written
\* again or persisted is eventually deleted.  Checked under SpecStoreFair,
\* for the expiry instants that the clock reaches.
C27_Timers ==
    /\ [](\A k \in Keys :
             ttlTable[k] # NoEntry => timeouts[k] = Pending(ttlTable[k]))
    /\ [][(last'.op = "keyTimer" /\ last'.ok)
             => /\ permanentStore'[last'.key] = NoValue
                /\ ttlStore'[last'.key] = NoValue
                /\ ttlTable'[last'.key] = NoEntry
                /\ ~timeouts'[last'.key].set
                /\ dirty' = dirty + 1]_vars
    /\ \A k \in Keys :
          (ttlTable[k] # NoEntry /\ ttlTable[k] <= LastNow)
              ~> (Region(W, k) = "none" \/ Renewed(k))

\* the timer of a key with an expiry record has fired and the key is gone
C27_Witness ==
    /\ last.op = "keyTimer"
    /\ last.ok
    /\ Region(W, last.key) = "none"
    /\ ttlTable[last.key] = NoEntry
    /\ dirty > 0

\* the keys removed from the store by the step
RemovedKeys ==
    {k \in Keys : /\ Region(W, k) # "none"
                  /\ permanentStore'[k] = NoValue
                  /\ ttlStore'[k] = NoValue}

\* C28: deletion is idempotent.  delete of an absent key returns false and
\* changes nothing; whichever of an explicit delete, a fired key timer, a
\* read of an expired key and a sweep comes first removes the key through
\* delete, with one increment of dirty for every key removed, and for a key
\* that is already absent each of them leaves the store as it is.  (The
\* mutual calls of KeyValueStore.delete and TTLManager.delete end: every
\* step of the model evaluates them to the end.)
C28_Deletion ==
    [][last'.op \in {"delete", "keyTimer", "get", "sweep"}
          => /\ dirty' = dirty + Cardinality(RemovedKeys)
             /\ \A k \in Keys :
                   Region(W, k) = "none"
                       => /\ permanentStore'[k] = NoValue
                          /\ ttlStore'[k] = NoValue
                          /\ ttlTable'[k] = ttlTable[k]
             /\ last'.op = "delete"
                   => last'.ok = (Region(W, last'.key) # "none")
             /\ (last'.op \in {"delete", "get"}
                    /\ Region(W, last'.key) = "none")
                   => UNCHANGED <<permanentStore, ttlStore, ttlTable,
                                  timeouts, dirty, expiredCount>>
             /\ (last'.op = "keyTimer" /\ Region(W, last'.key) = "none")
                   => UNCHANGED <<permanentStore, ttlStore, ttlTable, dirty,
                                  expiredCount>>]_vars

\* the timer of a key fires after the key was removed by another path
C28_Witness ==
    /\ last.op = "keyTimer"
    /\ ~last.ok
    /\ Region(W, last.key) = "none"
    /\ dirty > 0

----------------------------------------------------------------------------
(* Properties of the sweep, checked under SpecSweep *)

\* the keys the latest sweep pass examined
ExaminedKeys == {last'.arg[i] : i \in 1..Len(last'.arg)}

\* C29: a sweep pass examines at most 20 keys, all distinct and all taken
\* from the keys that have an expiry record; it evicts an examined key only
\* if the key's expiry instant has been reached, and then removes it
\* through the deletion callback (value, record and timer are removed and
\* dirty counts it); no other key is removed.
C29_Sweep ==
    [][last'.op = "sweep"
          => /\ Len(last'.arg) <= 20
             /\ Cardinality(ExaminedKeys) = Len(last'.arg)
             /\ \A k \in ExaminedKeys : ttlTable[k] # NoEntry
             /\ \A k \in DOMAIN ttlTable :
                   IF k \in ExaminedKeys /\ now >= ttlTable[k]
                   THEN /\ permanentStore'[k] = NoValue
                        /\ ttlStore'[k] = NoValue
                        /\ ttlTable'[k] = NoEntry
                   ELSE /\ permanentStore'[k] = permanentStore[k]
                        /\ ttlStore'[k] = ttlStore[k]
                        /\ ttlTable'[k] = ttlTable[k]
                        /\ timeouts'[k] = timeouts[k]
             /\ dirty' = dirty + Cardinality({k \in ExaminedKeys :
                                                 now >= ttlTable[k]})]_vars

\* a sweep pass has examined 20 of more keys with an expiry record, evicted
\* some and left others, expired ones among them
C29_Witness ==
    /\ last.op = "sweep"
    /\ Len(last.arg) = 20
    /\ dirty > NumSweepKeys
    /\ \E k \in DOMAIN ttlTable : ttlTable[k] # NoEntry /\ now >= ttlTable[k]
    /\ \E k \in DOMAIN ttlTable : ttlTable[k] # NoEntry /\ now < ttlTable[k]

----------------------------------------------------------------------------
(* Properties of the lazy cleanup, checked under SpecCleanup *)

\* the store as cleanupExpired finds it in the set that is being taken:
\* the writes of set are done and the cleanup has not run (set leaves the
\* cleanup out when the counter is below the threshold)
BeforeCleanup ==
    [StoreSet([W EXCEPT !.expiredCount = 0], last'.key, last'.arg[1],
              SubSeq(last'.arg, 2, Len(last'.arg)))
        EXCEPT !.expiredCount = expiredCount]

\* the keys the cleanup of the set that is being taken removes
CleanedKeys ==
    {k \in DOMAIN ttlStore :
        BeforeCleanup.ttlStore[k] # NoValue /\ ttlStore'[k] = NoValue}

\* C30: the lazy cleanup runs only when the counter of possibly expired
\* keys has reached its threshold; one pass visits at most 100 entries of
\* the volatile region, removes only expired keys, and lowers the counter
\* by exactly the number of keys it removed, never below 0.
C30_Claim ==
    [][last'.op = "set"
          => /\ (CleanedKeys # {} \/ CleanupVisited(BeforeCleanup) # {})
                   => expiredCount >= LAZY_CLEANUP_THRESHOLD
             /\ Cardinality(CleanupVisited(BeforeCleanup)) <= 100
             /\ \A k \in CleanedKeys : IsExpired(BeforeCleanup, k)
             /\ expiredCount' = expiredCount - Cardinality(CleanedKeys)
             /\ expiredCount' >= 0]_vars

----------------------------------------------------------------------------
(* Properties of the check schedule, checked under SpecSnap *)

\* the handler of this step is one snapshot check
IsCheck ==
    \/ last'.op \in {"checkTimer", "start"}
    \/ last'.op = "checkNow" /\ timer.set

\* the time that rule i still has to wait, before this step
Remaining(i) == rules[i].seconds * MsPerSecond - (now - lastSaveTime)

\* the rules whose change threshold is met, before this step
ThresholdMet == {i \in 1..Len(rules) : dirty >= rules[i].changes}

\* the delay of the pending check after this step
Delay == timer'.due - now'

\* C31: when a snapshot check (the check timer firing, start(), checkNow()
\* while a timer is pending) of a manager with save rules finds no rule
\* satisfied, one check is left pending; its delay is the least, over the
\* rules whose change threshold is met, of the rule's remaining time clamped
\* at 0, and 60 s when no rule's change threshold is met; the delay is never
\* negative, and it is at most 60 s when no threshold is met.
C31_NextCheck ==
    [][(IsCheck /\ rules # << >> /\ ~RuleSatisfied(dirty))
          => /\ timer'.set /\ timer'.pending
             /\ Delay >= 0
             /\ ThresholdMet = {} => Delay = IdleCheckMs
             /\ ThresholdMet # {}
                => /\ \E i \in ThresholdMet :
                         Delay = IF Remaining(i) < 0 THEN 0 ELSE Remaining(i)
                   /\ \A i \in ThresholdMet : Delay <= Remaining(i)]_vars

\* C31 witness: a check found the change threshold of one rule met but no
\* rule satisfied, and the next check is due when that rule's time is up,
\* sooner than the idle delay
C31_Witness ==
    /\ last.op \in {"checkTimer", "start", "checkNow"}
    /\ rules # << >>
    /\ ~ScheduledSave
    /\ \E i \in 1..Len(rules) : dirty >= rules[i].changes
    /\ timer.set /\ timer.pending
    /\ timer.due > now
    /\ timer.due - now < IdleCheckMs

\* C32: in every reachable state, under any interleaving of setStore (made
\* by store.saveSnapshot and store.loadSnapshot), start(), stop(),
\* checkNow(), the check timer firing and saves, at most one timeout of the
\* snapshot manager is pending in the event loop, and it is the one
\* this.timer holds; start() repeated, or alternated with stop(), never
\* accumulates timers.
C32_OneCheckTimer ==
    /\ Len(checkTimers) <= 1
    /\ checkTimers # << >>
       => (timer.set /\ timer.pending /\ checkTimers = <<timer.due>>)
    /\ (timer.set /\ timer.pending) => checkTimers # << >>

\* C32 witness: start() has run after time passed, while the manager had
\* its store set, and one timeout is pending
C32_Witness ==
    /\ last.op = "start"
    /\ now > 0
    /\ smStore
    /\ Len(checkTimers) = 1
    /\ timer.due >= now + IdleCheckMs

----------------------------------------------------------------------------
(* Properties of the parse cursor, checked under SpecParser *)

\* the latest read ended inside the i-th item sent
EndsInside(i) == ItemEnd(i - 1) < fed /\ fed < ItemEnd(i)

\* the bytes between the read offset and the logical size of the buffer
Unconsumed == SubSeq(parser.buffer, parser.offset + 1, parser.bufferSize)

\* C33: when a read of well-formed values ends inside a value, the read
\* offset is left at the type byte of that top-level value: the bytes kept
\* between the offset and the logical size are the bytes received of it,
\* unchanged, and no command has been passed on for it.
C33_Claim ==
    (clientParsers /\ Valid)
        => \A i \in 1..Len(items) :
              EndsInside(i)
                  => /\ Unconsumed = SubSeq(Stream, ItemEnd(i - 1) + 1, fed)
                     /\ commands = CommandsAmong(i - 1)

\* offset <= logical size <= capacity of the buffer
CursorInside(p) == p.offset <= p.bufferSize /\ p.bufferSize <= Len(p.buffer)

\* the type bytes after which a line is read
LineTypes == {43, 45, 58, 36, 42}

\* the parser inside parse(), after the first line of the data was read
AfterFirstLine(p) == At(p, ReadLine(At(p, p.offset + 1)).offset)

\* C34: offset <= logical size <= buffer capacity holds between reads and
\* inside a read: after growth or compaction and the append, and after the
\* first line of the read was looked for, which finds a line terminator
\* only in the bytes below the logical size, never in stale bytes.
C34_Claim ==
    /\ [](clientParsers => CursorInside(parser))
    /\ [][\A n \in 1..Len(Stream), pattern \in Uninitialised :
            (clientParsers /\ chunks' = chunks + 1 /\ fed' = fed + n)
                => LET Inside(p) ==
                           /\ CursorInside(p)
                           /\ p.buffer[p.offset + 1] \in LineTypes
                              => CursorInside(AfterFirstLine(p))
                   IN  Inside(Fed(parser, SubSeq(Stream, fed + 1, fed + n),
                                  pattern))]_vars

----------------------------------------------------------------------------
(* Properties of the command tokens, checked under SpecArrays *)

\* the elements of the array sent
SentElements == CHOOSE elements \in ElementLists : items = <<EncodeArray(elements)>>

\* the tokens of the bulk strings and simple strings among them, in order
StringTokens ==
    LET strings == SelectSeq(SentElements,
                             LAMBDA e : e.kind \in {"bulk", "simple"})
    IN  [i \in 1..Len(strings) |-> strings[i].token]

\* C35: when an array has been parsed completely, the elements that are
\* neither bulk strings nor simple strings are dropped and no error is
\* raised; the callback receives the tokens of the bulk strings and simple
\* strings in their order, and is not called when there is none.
C35_Claim ==
    (chunks = 1 /\ fed = Len(Stream))
        => /\ parseError = NoError
           /\ last.ok
           /\ commands = IF StringTokens = << >> THEN << >>
                         ELSE <<StringTokens>>

----------------------------------------------------------------------------
(* Properties of the TTL manager's answers, checked under SpecStore *)

\* the latest call was an expire(key, seconds <= 0) or a
\* pexpire(key, milliseconds <= 0) that reached the TTL manager
ExpiredAtOnce(key) ==
    /\ last.key = key
    /\ last.op \in {"expire", "pexpire"}
    /\ last.ok
    /\ last.arg[1] <= 0

\* C36: in the TTL manager, once the TTL of a key has elapsed, ttl(key) and
\* pttl(key) return -1 and the deletion callback has been called for the
\* key (the store holds it no longer); the same holds right after
\* expire(key, 0) and pexpire(key, negative).
C36_Claim ==
    \A key \in Keys :
        /\ Reached(key)
           => /\ TTLTtl(W, key).ret = TTL_NONE
              /\ TTLPttl(W, key).ret = TTL_NONE
              /\ Gone(TTLTtl(W, key).w, key)
              /\ Gone(TTLPttl(W, key).w, key)
        /\ ExpiredAtOnce(key)
           => /\ TTLTtl(W, key).ret = TTL_NONE
              /\ TTLPttl(W, key).ret = TTL_NONE
              /\ Gone(W, key)

----------------------------------------------------------------------------
(* Properties of the snapshot's content, checked under SpecLoad *)

\* the files the latest handler has written
Written == {writes[i].path : i \in {j \in DOMAIN writes : writes[j].ok}}

\* C37: a snapshot just written holds no key whose expiry instant has been
\* reached at that moment, so that loading it cannot bring an expired key
\* back as a permanent key.
C37_Claim ==
    \A filePath \in Written, key \in Keys :
        Reached(key) => files[filePath].data[key] = << >>

----------------------------------------------------------------------------
(* Properties of expire and pexpire on an expired key, checked under *)
(* SpecStore                                                         *)

\* C38: expire(key, s) and pexpire(key, ms) called on a key that is still
\* stored but whose expiry instant has been reached both return false, and
\* get(key) returns absent afterwards: the key gets no new expiry that
\* would bring its old value back.
C38_Claim ==
    (/\ last.op \in {"expire", "pexpire"}
     /\ last.preExpired
     /\ last.preRegion # "none")
        => /\ ~last.ok
           /\ StoreGet(W, last.key).ret = NoValue

\* C39: every key in the timer table of the TTL manager has an expiry
\* record: whenever a record is removed (by ttl or pttl finding it
\* elapsed, by a sweep pass, by persist, delete or clear) the key's timer is
\* cancelled and removed, so no timer handle outlives its record.
C39_Claim ==
    \A key \in Keys : timeouts[key].set => ttlTable[key] # NoEntry

----------------------------------------------------------------------------
(* Properties of the parsers' buffers, checked under SpecPool *)

\* C40: a buffer held in the pool is never the buffer of a parser in use
\* (one made and not disposed of, or fed again after dispose()), and no two
\* parsers in use have the same buffer, whatever the order of the parse()
\* and dispose() calls, parse() after dispose() and a second dispose()
\* included.
C40_Claim ==
    /\ \A i \in ParserIds, j \in 1..Len(bufferPool) :
          parsers[i].live => bufferPool[j].id # parsers[i].buffer.id
    /\ \A i \in ParserIds, j \in ParserIds :
          (i # j /\ parsers[i].live /\ parsers[j].live)
              => parsers[i].buffer.id # parsers[j].buffer.id

====
